-------------------------- MODULE SharedPackageProofs --------------------------
(***************************************************************************)
(* Proofs about SharedPackage, for any artifacts, commits and pinned bytes *)
(* and any number of jobs, deletions and crashes.                          *)
(*                                                                         *)
(* That files are never mixed or replaced rests on what a job has read     *)
(* being still true when it uploads, which holds because the concurrency   *)
(* group makes it the only job that runs, and others only delete.          *)
(***************************************************************************)
EXTENDS SharedPackage, TLAPS

\* The concurrency group.
OneJob == \A m, n \in Ids : Active(m) /\ Active(n) => m = n

\* What a job has read or uploaded is what is there: a file it missed is
\* still missing, a file it has to upload too, and what postflight found is
\* there until a deletion.
JobSound(n) ==
  LET job == runs[n] IN
  /\ job.pc = "preflight" =>
       \A a \in Artifacts \ job.todo :
         job.got[a] = Missing => remote[a] = Missing
  /\ job.pc = "publish" =>
       \A a \in Artifacts :
         IF a \in job.todo
         THEN remote[a] = Missing
         ELSE remote[a] \in {Missing, Pinned[job.source][a]}
  /\ job.pc = "postflight" /\ deletes = 0 =>
       \A a \in Artifacts \ job.todo : job.got[a] \in {remote[a], Garbled}
  /\ job.pc = "succeeded" =>
       deletes > 0 \/ remote = Pinned[job.source]

IInv ==
  /\ TypeOK
  /\ OneJob
  /\ \A n \in Ids : JobSound(n)
  /\ NeverMixed

-------------------------------------------------------------------------------
(* What the operators return.                                              *)

\* A job that is over keeps its source and nothing else.
LEMMA OverIs ==
  ASSUME TypeOK, NEW n \in Ids, NEW end \in Steps
  PROVE  /\ Over(n, end) \in Runs
         /\ Over(n, end).pc = end
         /\ Over(n, end).source = runs[n].source
<1>1. runs[n].source \in Commits
  BY DEF TypeOK, Runs
<1>2. NoFiles \in Readings
  BY DEF NoFiles, Readings
<1>3. 0 \in 0 .. Retries
  BY Bounds
<1>4. NoRun \in Runs
  BY <1>2, <1>3, Contents DEF NoRun, Runs, Steps
<1> QED
  BY <1>1, <1>4 DEF Over, Runs

\* A GET that ends without an exception returns the file, or finds it
\* missing when it is, or returns rubbish.
LEMMA FetchedIs ==
  ASSUME NEW file \in Bytes \cup {Missing}, NEW x \in Fetched(file),
         x # VerificationError, x # OSError
  PROVE  x \in {file, Garbled} /\ x \in Bytes \cup {Missing, Garbled}
<1>1. PICK r \in Responses(file) : x = FetchResult(r)
  BY DEF Fetched
<1>2. CASE r.status = 200
  <2>1. x = r.body
    BY <1>1, <1>2 DEF FetchResult
  <2>2. r.body \in {file, Garbled}
    BY <1>1 DEF Responses
  <2> QED
    BY <2>1, <2>2
<1>3. CASE r.status # 200
  <2>1. x = Missing /\ r.status = 404 /\ r.host = "packages"
    BY <1>1, <1>3 DEF FetchResult, IsAbsentPackageResponse
  <2>2. file = Missing
    BY <1>1, <2>1 DEF Responses
  <2> QED
    BY <2>1, <2>2
<1> QED
  BY <1>2, <1>3

\* The pinned bytes are bytes.
LEMMA PinnedType ==
  ASSUME NEW c \in Commits
  PROVE  /\ Pinned[c] \in [Artifacts -> Bytes]
         /\ Pinned[c] \in Files
BY Contents DEF Files

-------------------------------------------------------------------------------
(* Steps of a job.                                                         *)

\* What every step of job n but an upload, and its death, do.
Quiet(n) ==
  /\ runs' = [runs EXCEPT ![n] = runs'[n]]
  /\ runs'[n] \in Runs
  /\ runs'[n].source = runs[n].source
  /\ UNCHANGED <<head, remote, deletes>>
  /\ crashes' \in Nat
  /\ Active(n) \/ \A m \in Ids : ~Active(m)
  /\ JobSound(n)'
  /\ runs'[n].pc = "publish" => runs[n].pc # "publish" /\ remote = NoFiles

\* Going on with another job record, or failing.
LEMMA ProceedIs ==
  ASSUME TypeOK, NEW n \in Ids, NEW ok \in BOOLEAN, NEW next,
         Proceed(n, ok, next), ok => next \in Runs
  PROVE  /\ runs' = [runs EXCEPT ![n] = runs'[n]]
         /\ runs'[n] \in Runs
         /\ IF ok THEN runs'[n] = next ELSE runs'[n] = Over(n, "failed")
         /\ UNCHANGED <<head, remote, deletes, crashes>>
<1>1. Over(n, "failed") \in Runs
  BY OverIs DEF Steps
<1> QED
  BY <1>1 DEF Proceed, TypeOK

\* Changing where a job stands.
LEMMA MoveType ==
  ASSUME TypeOK, NEW n \in Ids, NEW to \in Steps
  PROVE  /\ [runs[n] EXCEPT !.pc = to] \in Runs
         /\ [runs[n] EXCEPT !.pc = to].pc = to
         /\ [runs[n] EXCEPT !.pc = to].source = runs[n].source
BY DEF TypeOK, Runs

\* A job that failed has nothing left to be sound about.
LEMMA FailedIsSound ==
  ASSUME TypeOK, NEW n \in Ids, runs'[n] = Over(n, "failed")
  PROVE  /\ JobSound(n)'
         /\ runs'[n].source = runs[n].source
         /\ runs'[n].pc = "failed"
<1>1. runs'[n].pc = "failed" /\ runs'[n].source = runs[n].source
  BY OverIs DEF Steps
<1> QED
  BY <1>1 DEF JobSound

\* The attempt of a job that reads ends.
LEMMA EndAttemptQuiet ==
  ASSUME IInv, NEW n \in Ids, EndAttempt(n),
         runs[n].pc \in {"preflight", "postflight"}
  PROVE  Quiet(n)
<1> DEFINE next == [runs[n] EXCEPT !.tries = @ + 1, !.todo = Artifacts,
                                   !.got = NoFiles]
<1>1. TypeOK /\ runs[n] \in Runs
  BY DEF IInv, TypeOK
<1>2. AttemptsLeft(n) \in BOOLEAN
  BY DEF AttemptsLeft
<1>3. AttemptsLeft(n) =>
        /\ next \in Runs
        /\ next.pc = "postflight"
        /\ next.source = runs[n].source
        /\ next.todo = Artifacts
  <2>1. SUFFICES ASSUME AttemptsLeft(n)
                 PROVE  /\ next \in Runs
                        /\ next.pc = "postflight"
                        /\ next.source = runs[n].source
                        /\ next.todo = Artifacts
    OBVIOUS
  <2>2. runs[n].tries + 1 \in 0 .. Retries /\ runs[n].pc = "postflight"
    BY <1>1, <2>1, Bounds DEF Runs, AttemptsLeft
  <2>3. NoFiles \in Readings
    BY DEF NoFiles, Readings
  <2> QED
    BY <1>1, <2>2, <2>3 DEF Runs
<1>4. Proceed(n, AttemptsLeft(n), next)
  BY DEF EndAttempt
<1> HIDE DEF next
<1>5. /\ runs' = [runs EXCEPT ![n] = runs'[n]]
      /\ runs'[n] \in Runs
      /\ IF AttemptsLeft(n) THEN runs'[n] = next
                            ELSE runs'[n] = Over(n, "failed")
      /\ UNCHANGED <<head, remote, deletes, crashes>>
  BY <1>1, <1>2, <1>3, <1>4, ProceedIs
<1>6. CASE AttemptsLeft(n)
  BY <1>1, <1>3, <1>5, <1>6 DEF Quiet, JobSound, Active, TypeOK
<1>7. CASE ~AttemptsLeft(n)
  BY <1>1, <1>5, <1>7, FailedIsSound DEF Quiet, Active, TypeOK
<1> QED
  BY <1>6, <1>7

\* One file is read: it is what is there, or rubbish.
LEMMA FetchQuiet ==
  ASSUME IInv, NEW n \in Ids, Fetch(n)
  PROVE  Quiet(n)
<1>1. TypeOK /\ runs[n] \in Runs /\ JobSound(n)
  BY DEF IInv, TypeOK
<1>2. PICK a \in runs[n].todo : \E file \in Fetched(remote[a]) :
        IF file = VerificationError
        THEN EndAttempt(n)
        ELSE Proceed(n, file # OSError,
                     [runs[n] EXCEPT !.todo = @ \ {a}, !.got[a] = file])
  BY DEF Fetch
<1>3. PICK file \in Fetched(remote[a]) :
        IF file = VerificationError
        THEN EndAttempt(n)
        ELSE Proceed(n, file # OSError,
                     [runs[n] EXCEPT !.todo = @ \ {a}, !.got[a] = file])
  BY <1>2
<1>4. runs[n].pc \in {"preflight", "postflight"}
  BY DEF Fetch
<1>5. CASE file = VerificationError
  BY <1>3, <1>4, <1>5, EndAttemptQuiet
<1>6. CASE file # VerificationError
  <2> DEFINE next == [runs[n] EXCEPT !.todo = @ \ {a}, !.got[a] = file]
  <2>1. Proceed(n, file # OSError, next)
    BY <1>3, <1>6
  <2>2. a \in Artifacts /\ remote[a] \in Bytes \cup {Missing}
    BY <1>1 DEF TypeOK, Runs, Files
  <2>3. file # OSError =>
          file \in {remote[a], Garbled} /\ file \in Bytes \cup {Missing, Garbled}
    BY <1>6, <2>2, FetchedIs
  <2>4. file # OSError =>
          /\ next \in Runs
          /\ next.pc = runs[n].pc /\ next.source = runs[n].source
          /\ next.todo = runs[n].todo \ {a}
          /\ next.got = [runs[n].got EXCEPT ![a] = file]
    BY <1>1, <2>2, <2>3 DEF Runs, Readings
  <2> HIDE DEF next
  <2>5. /\ runs' = [runs EXCEPT ![n] = runs'[n]]
        /\ runs'[n] \in Runs
        /\ IF file # OSError THEN runs'[n] = next
                             ELSE runs'[n] = Over(n, "failed")
        /\ UNCHANGED <<head, remote, deletes, crashes>>
    BY <1>1, <2>1, <2>4, ProceedIs
  <2>6. CASE file # OSError
    <3>1. runs[n].got \in [Artifacts -> Bytes \cup {Missing, Garbled}]
      BY <1>1 DEF Runs, Readings
    <3>2. \A b \in Artifacts \ next.todo :
            \/ b = a /\ next.got[b] = file
            \/ b \notin runs[n].todo /\ next.got[b] = runs[n].got[b]
      BY <2>4, <2>6, <3>1
    <3>3. JobSound(n)'
      BY <1>1, <1>4, <2>3, <2>4, <2>5, <2>6, <3>2, Contents DEF JobSound
    <3> QED
      BY <1>1, <1>4, <2>4, <2>5, <2>6, <3>3 DEF Quiet, Active, TypeOK
  <2>7. CASE file = OSError
    BY <1>1, <1>4, <2>5, <2>7, FailedIsSound DEF Quiet, Active, TypeOK
  <2> QED
    BY <2>6, <2>7
<1> QED
  BY <1>5, <1>6

\* Preflight goes on to publish only if nothing at all is there.
LEMMA PreflightQuiet ==
  ASSUME IInv, NEW n \in Ids, Preflight(n)
  PROVE  Quiet(n)
<1> DEFINE verdict == Classify(n, FALSE)
<1>1. TypeOK /\ runs[n] \in Runs /\ JobSound(n)
  BY DEF IInv, TypeOK
<1>2. runs[n].pc = "preflight" /\ runs[n].todo = {}
  BY DEF Preflight
<1>3. CASE verdict = "refuse"
  <2>1. EndAttempt(n)
    BY <1>3 DEF Preflight
  <2> QED
    BY <1>2, <2>1, EndAttemptQuiet
<1>4. CASE verdict # "refuse"
  <2> DEFINE to == IF verdict = "publish" THEN "publish" ELSE "postflight"
             next == [runs[n] EXCEPT !.pc = to, !.todo = Artifacts,
                                     !.got = NoFiles]
  <2>1. Proceed(n, TRUE, next)
    BY <1>4 DEF Preflight
  <2>2. NoFiles \in Readings
    BY DEF NoFiles, Readings
  <2>3. /\ next \in Runs
        /\ next.pc = to /\ next.source = runs[n].source
        /\ next.todo = Artifacts
    BY <1>1, <2>2 DEF Runs, Steps
  <2>4. verdict = "publish" => remote = NoFiles
    <3>1. SUFFICES ASSUME verdict = "publish"
                   PROVE  remote = NoFiles
      OBVIOUS
    <3>2. Present(n) = {}
      BY <3>1 DEF Classify
    <3>3. \A a \in Artifacts : remote[a] = Missing
      BY <1>1, <1>2, <3>2 DEF Present, JobSound
    <3>4. remote \in [Artifacts -> Bytes \cup {Missing}]
      BY <1>1 DEF TypeOK, Files
    <3> QED
      BY <3>3, <3>4 DEF NoFiles
  <2> HIDE DEF next, verdict
  <2>5. /\ runs' = [runs EXCEPT ![n] = runs'[n]]
        /\ runs'[n] \in Runs
        /\ runs'[n] = next
        /\ UNCHANGED <<head, remote, deletes, crashes>>
    BY <1>1, <2>1, <2>3, ProceedIs
  <2>6. to = "publish" => remote = NoFiles
    BY <2>4
  <2>7. to \in {"publish", "postflight"}
    OBVIOUS
  <2> HIDE DEF to
  <2>8. JobSound(n)'
    BY <2>3, <2>5, <2>6, <2>7 DEF JobSound, NoFiles
  <2> QED
    BY <1>1, <1>2, <2>3, <2>5, <2>6, <2>7, <2>8 DEF Quiet, Active, TypeOK
<1> QED
  BY <1>3, <1>4

\* A job succeeds only on files that are exactly its own.
LEMMA PostflightQuiet ==
  ASSUME IInv, NEW n \in Ids, Postflight(n)
  PROVE  Quiet(n)
<1>1. TypeOK /\ runs[n] \in Runs /\ JobSound(n)
  BY DEF IInv, TypeOK
<1>2. runs[n].pc = "postflight" /\ runs[n].todo = {}
  BY DEF Postflight
<1>3. CASE Classify(n, TRUE) # "exact"
  <2>1. EndAttempt(n)
    BY <1>3 DEF Postflight
  <2> QED
    BY <1>2, <2>1, EndAttemptQuiet
<1>4. CASE Classify(n, TRUE) = "exact"
  <2>1. Proceed(n, TRUE, Over(n, "succeeded"))
    BY <1>4 DEF Postflight
  <2>2. /\ Over(n, "succeeded") \in Runs
        /\ Over(n, "succeeded").pc = "succeeded"
        /\ Over(n, "succeeded").source = runs[n].source
    BY <1>1, OverIs DEF Steps
  <2>3. /\ runs' = [runs EXCEPT ![n] = runs'[n]]
        /\ runs'[n] \in Runs
        /\ runs'[n] = Over(n, "succeeded")
        /\ UNCHANGED <<head, remote, deletes, crashes>>
    BY <1>1, <2>1, <2>2, ProceedIs
  <2>4. deletes > 0 \/ remote = Pinned[runs[n].source]
    <3>1. SUFFICES ASSUME deletes = 0
                   PROVE  remote = Pinned[runs[n].source]
      BY <1>1 DEF TypeOK
    <3>2. runs[n].got = Pinned[runs[n].source]
      BY <1>4 DEF Classify
    <3>3. Pinned[runs[n].source] \in [Artifacts -> Bytes]
      BY <1>1, PinnedType DEF Runs
    <3>4. \A a \in Artifacts : remote[a] = Pinned[runs[n].source][a]
      BY <1>1, <1>2, <3>1, <3>2, <3>3, Contents DEF JobSound
    <3>5. remote \in [Artifacts -> Bytes \cup {Missing}]
      BY <1>1 DEF TypeOK, Files
    <3> QED
      BY <3>3, <3>4, <3>5
  <2>5. JobSound(n)'
    BY <2>2, <2>3, <2>4 DEF JobSound
  <2> QED
    BY <1>1, <1>2, <2>2, <2>3, <2>5 DEF Quiet, Active, TypeOK
<1> QED
  BY <1>3, <1>4

\* The steps before the files are first read.
LEMMA EarlyQuiet ==
  ASSUME IInv, NEW n \in Ids,
         \/ StartJob(n)
         \/ RequireEnvironment(n)
         \/ VerifySource(n)
         \/ BuildAndVerifyLocal(n)
  PROVE  Quiet(n)
<1>1. TypeOK /\ runs[n] \in Runs /\ JobSound(n)
  BY DEF IInv, TypeOK
<1>2. PICK to \in {"environment", "verify", "build"}, ok \in BOOLEAN :
        \/ Proceed(n, ok, [runs[n] EXCEPT !.pc = to])
        \/ BuildAndVerifyLocal(n)
  BY DEF StartJob, RequireEnvironment, VerifySource
<1>3. Active(n) \/ \A m \in Ids : ~Active(m)
  BY DEF StartJob, RequireEnvironment, VerifySource, BuildAndVerifyLocal, Active
<1>4. CASE Proceed(n, ok, [runs[n] EXCEPT !.pc = to])
  <2> DEFINE next == [runs[n] EXCEPT !.pc = to]
  <2>0. to \in Steps
    BY DEF Steps
  <2>1. /\ next \in Runs
        /\ next.pc = to /\ next.source = runs[n].source
    BY <1>1, <2>0, MoveType
  <2>2. Proceed(n, ok, next)
    BY <1>4
  <2> HIDE DEF next
  <2>3. /\ runs' = [runs EXCEPT ![n] = runs'[n]]
        /\ runs'[n] \in Runs
        /\ IF ok THEN runs'[n] = next ELSE runs'[n] = Over(n, "failed")
        /\ UNCHANGED <<head, remote, deletes, crashes>>
    BY <1>1, <2>1, <2>2, ProceedIs
  <2>4. CASE ok
    BY <1>1, <1>3, <2>1, <2>3, <2>4 DEF Quiet, JobSound, TypeOK
  <2>5. CASE ~ok
    BY <1>1, <1>3, <2>3, <2>5, FailedIsSound DEF Quiet, TypeOK
  <2> QED
    BY <2>4, <2>5
<1>5. CASE BuildAndVerifyLocal(n)
  <2> DEFINE next == [runs[n] EXCEPT !.pc = "preflight", !.todo = Artifacts]
  <2>1. PICK right \in BOOLEAN : Proceed(n, right, next)
    BY <1>5 DEF BuildAndVerifyLocal
  <2>2. /\ next \in Runs
        /\ next.pc = "preflight" /\ next.source = runs[n].source
        /\ next.todo = Artifacts
    BY <1>1 DEF Runs, Steps
  <2> HIDE DEF next
  <2>3. /\ runs' = [runs EXCEPT ![n] = runs'[n]]
        /\ runs'[n] \in Runs
        /\ IF right THEN runs'[n] = next ELSE runs'[n] = Over(n, "failed")
        /\ UNCHANGED <<head, remote, deletes, crashes>>
    BY <1>1, <2>1, <2>2, ProceedIs
  <2>4. CASE right
    BY <1>1, <1>3, <2>2, <2>3, <2>4 DEF Quiet, JobSound, TypeOK
  <2>5. CASE ~right
    BY <1>1, <1>3, <2>3, <2>5, FailedIsSound DEF Quiet, TypeOK
  <2> QED
    BY <2>4, <2>5
<1> QED
  BY <1>2, <1>4, <1>5

\* A runner that dies.
LEMMA CrashQuiet ==
  ASSUME IInv, NEW n \in Ids, Crash(n)
  PROVE  Quiet(n)
<1>1. TypeOK /\ runs[n] \in Runs
  BY DEF IInv, TypeOK
<1>2. Over(n, "failed") \in Runs
  BY <1>1, OverIs DEF Steps
<1>3. /\ runs' = [runs EXCEPT ![n] = runs'[n]]
      /\ runs'[n] = Over(n, "failed")
      /\ UNCHANGED <<head, remote, deletes>>
      /\ crashes' \in Nat
      /\ Active(n)
  BY <1>1 DEF Crash, TypeOK
<1> QED
  BY <1>1, <1>2, <1>3, FailedIsSound DEF Quiet

\* Every step of a job but an upload, and its death.
LEMMA QuietSteps ==
  ASSUME IInv, NEW n \in Ids, JobStep(n) \/ Crash(n)
  PROVE  Quiet(n) \/ UploadFile(n)
BY EarlyQuiet, FetchQuiet, PreflightQuiet, PostflightQuiet, CrashQuiet
   DEF JobStep

-------------------------------------------------------------------------------
(* The upload.                                                             *)

\* A file that was missing may now be there; the job goes on or is over.
Uploaded(n) ==
  /\ runs[n].pc = "publish"
  /\ runs' = [runs EXCEPT ![n] = runs'[n]]
  /\ runs'[n] \in Runs
  /\ runs'[n].source = runs[n].source
  /\ runs'[n].pc \in {"failed", "publish", "postflight"}
  /\ \/ remote' = remote /\ runs'[n].pc = "failed"
     \/ \E a \in Artifacts :
          /\ remote[a] = Missing
          /\ remote' = [remote EXCEPT ![a] = Pinned[runs[n].source][a]]
          /\ runs'[n].pc = "publish" =>
               runs'[n].todo = runs[n].todo \ {a}
          /\ runs'[n].pc = "postflight" => runs'[n].todo = Artifacts
  /\ UNCHANGED <<head, deletes, crashes>>

\* UploadFile does so, for it uploads only files that are missing.
LEMMA UploadIs ==
  ASSUME IInv, NEW n \in Ids, UploadFile(n)
  PROVE  Uploaded(n)
<1>1. TypeOK /\ runs[n] \in Runs /\ JobSound(n)
  BY DEF IInv, TypeOK
<1>2. runs[n].pc = "publish" /\ UNCHANGED <<head, deletes, crashes>>
  BY DEF UploadFile
<1>3. PICK a \in runs[n].todo : \E taken, answered \in BOOLEAN :
        /\ remote' = IF taken
                     THEN [remote EXCEPT ![a] = Pinned[runs[n].source][a]]
                     ELSE remote
        /\ runs' = [runs EXCEPT ![n] =
             IF ~taken \/ ~answered THEN Over(n, "failed")
             ELSE IF runs[n].todo = {a}
             THEN [runs[n] EXCEPT !.pc = "postflight", !.todo = Artifacts]
             ELSE [runs[n] EXCEPT !.todo = @ \ {a}]]
  BY DEF UploadFile
<1>4. a \in Artifacts /\ remote[a] = Missing
  BY <1>1, <1>2 DEF Runs, JobSound
<1>5. /\ Over(n, "failed") \in Runs
      /\ Over(n, "failed").pc = "failed"
      /\ Over(n, "failed").source = runs[n].source
  BY <1>1, OverIs DEF Steps
<1> DEFINE check == [runs[n] EXCEPT !.pc = "postflight", !.todo = Artifacts]
           rest == [runs[n] EXCEPT !.todo = @ \ {a}]
<1>6. /\ check \in Runs
      /\ check.pc = "postflight"
      /\ check.source = runs[n].source
      /\ check.todo = Artifacts
  BY <1>1 DEF Runs, Steps
<1>7. /\ rest \in Runs
      /\ rest.pc = "publish"
      /\ rest.source = runs[n].source
      /\ rest.todo = runs[n].todo \ {a}
  BY <1>1, <1>2 DEF Runs
<1>8. PICK taken, answered \in BOOLEAN :
        /\ remote' = IF taken
                     THEN [remote EXCEPT ![a] = Pinned[runs[n].source][a]]
                     ELSE remote
        /\ runs' = [runs EXCEPT ![n] =
             IF ~taken \/ ~answered THEN Over(n, "failed")
             ELSE IF runs[n].todo = {a} THEN check ELSE rest]
  BY <1>3
<1> HIDE DEF check, rest
<1>9. /\ runs' = [runs EXCEPT ![n] = runs'[n]]
      /\ runs'[n] = IF ~taken \/ ~answered THEN Over(n, "failed")
                    ELSE IF runs[n].todo = {a} THEN check ELSE rest
  BY <1>1, <1>8 DEF TypeOK
<1>10. CASE ~taken
  BY <1>2, <1>5, <1>8, <1>9, <1>10 DEF Uploaded
<1>11. CASE taken /\ ~answered
  BY <1>2, <1>4, <1>5, <1>8, <1>9, <1>11 DEF Uploaded
<1>12. CASE taken /\ answered /\ runs[n].todo = {a}
  BY <1>2, <1>4, <1>6, <1>8, <1>9, <1>12 DEF Uploaded
<1>13. CASE taken /\ answered /\ runs[n].todo # {a}
  BY <1>2, <1>4, <1>7, <1>8, <1>9, <1>13 DEF Uploaded
<1> QED
  BY <1>10, <1>11, <1>12, <1>13

-------------------------------------------------------------------------------
(* The invariant is inductive.                                             *)

\* A step of one job leaves the others alone.
LEMMA OthersKept ==
  ASSUME IInv, NEW n \in Ids,
         runs' = [runs EXCEPT ![n] = runs'[n]], runs'[n] \in Runs
  PROVE  /\ runs' \in [Ids -> Runs]
         /\ \A m \in Ids : m # n => runs'[m] = runs[m]
BY DEF IInv, TypeOK

\* With a job that is the only one to run, the group is kept.
LEMMA OneJobKept ==
  ASSUME IInv, NEW n \in Ids,
         runs' = [runs EXCEPT ![n] = runs'[n]], runs'[n] \in Runs,
         Active(n) \/ \A m \in Ids : ~Active(m)
  PROVE  OneJob'
<1>1. \A m \in Ids : m # n => Active(m)' = Active(m)
  BY OthersKept, Zenon DEF Active
<1> QED
  BY <1>1 DEF IInv, OneJob

\* A quiet step.
LEMMA QuietKeeps ==
  ASSUME IInv, NEW n \in Ids, Quiet(n)
  PROVE  IInv'
<1>1. TypeOK'
  BY OthersKept DEF Quiet, IInv, TypeOK
<1>2. OneJob'
  BY OneJobKept DEF Quiet
<1>3. ASSUME NEW m \in Ids
      PROVE  JobSound(m)'
  <2>1. CASE m = n
    BY <2>1 DEF Quiet
  <2>2. CASE m # n
    <3>1. runs'[m] = runs[m]
      BY <2>2, OthersKept DEF Quiet
    <3> QED
      BY <3>1 DEF IInv, Quiet, JobSound
  <2> QED
    BY <2>1, <2>2
<1>4. NeverMixed'
  BY DEF IInv, Quiet, NeverMixed, OneCommit
<1> QED
  BY <1>1, <1>2, <1>3, <1>4 DEF IInv

\* An upload: the job is the only one that runs, and it adds to the files
\* of its own commit; a job that succeeded would have left none to add.
LEMMA UploadKeeps ==
  ASSUME IInv, NEW n \in Ids, Uploaded(n)
  PROVE  IInv'
<1>1. /\ TypeOK /\ runs[n] \in Runs /\ JobSound(n) /\ Active(n)
      /\ remote \in [Artifacts -> Bytes \cup {Missing}]
  BY DEF IInv, TypeOK, Uploaded, Active, Files
<1>2. Pinned[runs[n].source] \in [Artifacts -> Bytes]
  BY <1>1, PinnedType DEF Runs
<1>3. /\ remote' \in [Artifacts -> Bytes \cup {Missing}]
      /\ \A b \in Artifacts : remote'[b] \in {Missing, Pinned[runs[n].source][b]}
  <2>1. \A b \in Artifacts : remote[b] \in {Missing, Pinned[runs[n].source][b]}
    BY <1>1 DEF JobSound, Uploaded
  <2> QED
    BY <1>1, <1>2, <2>1 DEF Uploaded
<1>4. TypeOK'
  BY <1>3, OthersKept DEF Uploaded, IInv, TypeOK, Files
<1>5. OneJob'
  BY <1>1, OneJobKept DEF Uploaded
<1>6. NeverMixed'
  BY <1>1, <1>3 DEF NeverMixed, OneCommit, Runs
<1>7. JobSound(n)'
  <2>1. CASE runs'[n].pc \in {"failed", "postflight"}
    BY <2>1 DEF Uploaded, JobSound
  <2>2. CASE runs'[n].pc = "publish"
    <3>1. PICK a \in Artifacts :
            /\ remote' = [remote EXCEPT ![a] = Pinned[runs[n].source][a]]
            /\ runs'[n].todo = runs[n].todo \ {a}
      BY <2>2 DEF Uploaded
    <3>2. \A b \in Artifacts \ {a} : remote'[b] = remote[b]
      BY <1>1, <3>1
    <3>3. runs[n].pc = "publish" /\ runs'[n].source = runs[n].source
      BY DEF Uploaded
    <3>4. \A b \in runs'[n].todo : b \in runs[n].todo /\ b \in Artifacts \ {a}
      BY <1>1, <3>1 DEF Runs
    <3>5. \A b \in runs'[n].todo : remote'[b] = Missing
      BY <1>1, <3>2, <3>3, <3>4 DEF JobSound
    <3> QED
      BY <1>3, <2>2, <3>3, <3>5 DEF JobSound
  <2> QED
    BY <2>1, <2>2 DEF Uploaded
<1>8. ASSUME NEW m \in Ids, m # n
      PROVE  JobSound(m)'
  <2>1. runs'[m] = runs[m] /\ runs[m] \in Runs
    BY <1>1, <1>8, OthersKept DEF Uploaded, TypeOK
  <2>2. runs[m].pc \in {"none", "queued", "failed", "succeeded"}
    BY <1>1, <1>8 DEF IInv, OneJob, Active
  <2>3. CASE runs[m].pc # "succeeded"
    BY <2>1, <2>2, <2>3 DEF JobSound
  <2>4. CASE runs[m].pc = "succeeded"
    <3>1. deletes > 0 \/ remote = Pinned[runs[m].source]
      BY <2>4 DEF IInv, JobSound
    <3>2. Pinned[runs[m].source] \in [Artifacts -> Bytes]
      BY <2>1, PinnedType DEF Runs
    <3>3. remote = Pinned[runs[m].source] => remote' = remote
      BY <3>2, Contents DEF Uploaded
    <3> QED
      BY <2>1, <2>4, <3>1, <3>3 DEF Uploaded, JobSound
  <2> QED
    BY <2>3, <2>4
<1> QED
  BY <1>4, <1>5, <1>6, <1>7, <1>8 DEF IInv

\* A push starts no job and only ends jobs that wait.
LEMMA MainMovesKeeps ==
  ASSUME IInv, NEW c \in Commits, MainMoves(c)
  PROVE  IInv'
<1>1. TypeOK
  BY DEF IInv
<1> DEFINE queued == [NoRun EXCEPT !.pc = "queued", !.source = c]
<1>2. PICK n \in Ids :
        /\ runs[n].pc = "none"
        /\ runs' = [m \in Ids |->
             IF m = n THEN queued
             ELSE IF runs[m].pc = "queued" THEN Over(m, "failed")
                                           ELSE runs[m]]
  BY DEF MainMoves
<1>3. queued \in Runs /\ queued.pc = "queued"
  <2>1. 0 \in 0 .. Retries /\ NoFiles \in Readings
    BY Bounds DEF NoFiles, Readings
  <2> QED
    BY <2>1 DEF NoRun, Runs, Steps
<1> HIDE DEF queued
<1>4. ASSUME NEW m \in Ids
      PROVE  /\ runs'[m] \in Runs
             /\ runs'[m].pc \in {"queued", "failed"} \/ runs'[m] = runs[m]
  <2>1. /\ Over(m, "failed") \in Runs
        /\ Over(m, "failed").pc = "failed"
    BY <1>1, OverIs DEF Steps
  <2> QED
    BY <1>1, <1>2, <1>3, <2>1 DEF TypeOK
<1>5. head' = c /\ UNCHANGED <<remote, deletes, crashes>>
  BY DEF MainMoves
<1>6. TypeOK'
  <2>1. runs' \in [Ids -> Runs]
    BY <1>2, <1>4
  <2> QED
    BY <1>1, <1>5, <2>1 DEF TypeOK
<1>7. OneJob'
  <2>1. \A m \in Ids : Active(m)' => Active(m)
    BY <1>4 DEF Active
  <2> QED
    BY <2>1 DEF IInv, OneJob
<1>8. \A m \in Ids : JobSound(m)'
  BY <1>4, <1>5 DEF IInv, JobSound
<1>9. NeverMixed'
  BY <1>5 DEF IInv, NeverMixed, OneCommit
<1> QED
  BY <1>6, <1>7, <1>8, <1>9 DEF IInv

\* A deletion leaves nothing to be wrong about.
LEMMA DeleteKeeps ==
  ASSUME IInv, DeleteVersion
  PROVE  IInv'
<1>1. /\ TypeOK
      /\ remote' = NoFiles
      /\ deletes' \in Nat /\ deletes' > 0
      /\ UNCHANGED <<head, runs, crashes>>
  BY DEF IInv, TypeOK, DeleteVersion
<1>2. NoFiles \in Files /\ \A a \in Artifacts : NoFiles[a] = Missing
  BY DEF NoFiles, Files
<1>3. TypeOK'
  BY <1>1, <1>2 DEF TypeOK
<1>4. OneJob'
  BY <1>1 DEF IInv, OneJob, Active
<1>5. \A m \in Ids : JobSound(m)'
  <2>1. TAKE m \in Ids
  <2>2. runs[m].todo \subseteq Artifacts
    BY <1>1 DEF TypeOK, Runs
  <2> QED
    BY <1>1, <1>2, <2>2 DEF JobSound
<1>6. NeverMixed'
  BY <1>1, <1>2, Contents DEF NeverMixed, OneCommit
<1> QED
  BY <1>3, <1>4, <1>5, <1>6 DEF IInv

\* Nothing has been read or uploaded at first.
LEMMA InitInvariant == Init => IInv
<1> SUFFICES ASSUME Init
             PROVE  IInv
  OBVIOUS
<1>1. NoRun \in Runs /\ NoRun.pc = "none"
  <2>1. 0 \in 0 .. Retries /\ NoFiles \in Readings
    BY Bounds DEF NoFiles, Readings
  <2> QED
    BY <2>1, Contents DEF NoRun, Runs, Steps
<1>2. \A n \in Ids : runs[n] = NoRun
  BY DEF Init
<1>3. TypeOK
  BY <1>1, Contents DEF Init, TypeOK
<1>4. OneJob /\ \A n \in Ids : JobSound(n)
  BY <1>1, <1>2 DEF OneJob, Active, JobSound
<1> QED
  BY <1>3, <1>4 DEF Init, IInv, NeverMixed

\* Every step keeps the invariant.
LEMMA StepInvariant == IInv /\ [Next]_vars => IInv'
<1> SUFFICES ASSUME IInv, [Next]_vars
             PROVE  IInv'
  OBVIOUS
<1>1. ASSUME NEW c \in Commits, MainMoves(c)
      PROVE  IInv'
  BY <1>1, MainMovesKeeps
<1>2. CASE DeleteVersion
  BY <1>2, DeleteKeeps
<1>3. ASSUME NEW n \in Ids, JobStep(n) \/ Crash(n)
      PROVE  IInv'
  BY <1>3, QuietSteps, QuietKeeps, UploadIs, UploadKeeps
<1>4. CASE UNCHANGED vars
  BY <1>4 DEF IInv, vars, TypeOK, OneJob, Active, JobSound, NeverMixed, OneCommit
<1> QED
  BY <1>1, <1>2, <1>3, <1>4 DEF Next

\* The invariant holds throughout.
LEMMA Invariance == Spec => []IInv
BY InitInvariant, StepInvariant, PTL DEF Spec

\* Jobs, files and counters have their types.
THEOREM TypeCorrect == Spec => []TypeOK
<1>1. IInv => TypeOK
  BY DEF IInv
<1> QED
  BY <1>1, Invariance, PTL

\* The published files all come from one commit.
THEOREM FilesNeverMixed == Spec => []NeverMixed
<1>1. IInv => NeverMixed
  BY DEF IInv
<1> QED
  BY <1>1, Invariance, PTL

\* A job that succeeded vouches for the coordinate until it is deleted.
THEOREM SuccessIsExact == Spec => []SuccessStaysExact
<1>1. IInv => SuccessStaysExact
  BY DEF IInv, JobSound, SuccessStaysExact
<1> QED
  BY <1>1, Invariance, PTL

-------------------------------------------------------------------------------
(* The workflow implements the immutable coordinate.                       *)

\* The publisher is the only job that publishes.
LEMMA PublisherIs ==
  ASSUME NEW n \in Ids, runs[n].pc = "publish",
         \A m \in Ids : m # n => runs[m].pc # "publish"
  PROVE  Publisher = runs[n].source
<1>1. (CHOOSE m \in Ids : runs[m].pc = "publish") = n
  OBVIOUS
<1> QED
  BY <1>1 DEF Publisher

\* The same after a step.
LEMMA PublisherBecomes ==
  ASSUME NEW n \in Ids, runs'[n].pc = "publish",
         \A m \in Ids : m # n => runs'[m].pc # "publish"
  PROVE  Publisher' = runs'[n].source
<1>1. (CHOOSE m \in Ids : runs'[m].pc = "publish") = n
  OBVIOUS
<1> QED
  BY <1>1 DEF Publisher

\* While a job runs, the others do not publish, before its step and after.
LEMMA OnlyThisJob ==
  ASSUME IInv, NEW n \in Ids,
         runs' = [runs EXCEPT ![n] = runs'[n]], runs'[n] \in Runs,
         Active(n) \/ \A m \in Ids : ~Active(m)
  PROVE  \A m \in Ids : m # n =>
           runs[m].pc # "publish" /\ runs'[m].pc # "publish"
<1>1. \A m \in Ids : m # n => ~Active(m)
  BY DEF IInv, OneJob
<1>2. \A m \in Ids : runs[m].pc = "publish" => Active(m)
  BY DEF Active
<1> QED
  BY <1>1, <1>2, OthersKept

\* A quiet step begins a publication, ends one or does not show.
LEMMA QuietRefines ==
  ASSUME IInv, NEW n \in Ids, Quiet(n)
  PROVE  [Coordinate!CoordinateNext]_(Coordinate!coordinateVars)
<1>1. /\ UNCHANGED remote
      /\ runs'[n].source = runs[n].source
      /\ runs'[n].pc = "publish" => runs[n].pc # "publish" /\ remote = NoFiles
      /\ runs[n].source \in Commits
  BY DEF Quiet, IInv, TypeOK, Runs
<1>2. \A m \in Ids : m # n => runs[m].pc # "publish" /\ runs'[m].pc # "publish"
  BY OnlyThisJob DEF Quiet
<1>3. runs[n].pc # "publish" => Publisher = NoCommit
  BY <1>2 DEF Publisher
<1>4. runs'[n].pc # "publish" => Publisher' = NoCommit
  BY <1>2 DEF Publisher
<1>5. CASE runs'[n].pc = "publish"
  <2>1. Publisher' = runs[n].source
    BY <1>1, <1>2, <1>5, PublisherBecomes
  <2>2. remote = Coordinate!Empty
    BY <1>1, <1>5 DEF NoFiles, Coordinate!Empty
  <2>3. Coordinate!Begin(runs[n].source)
    BY <1>1, <1>3, <1>5, <2>1, <2>2 DEF Coordinate!Begin
  <2> QED
    BY <1>1, <2>3 DEF Coordinate!CoordinateNext
<1>6. CASE runs'[n].pc # "publish"
  BY <1>1, <1>4, <1>6 DEF Coordinate!End, Coordinate!CoordinateNext
<1> QED
  BY <1>5, <1>6

\* An upload adds a file, or ends the publication.
LEMMA UploadRefines ==
  ASSUME IInv, NEW n \in Ids, Uploaded(n)
  PROVE  [Coordinate!CoordinateNext]_(Coordinate!coordinateVars)
<1>1. /\ runs[n].pc = "publish" /\ runs'[n].source = runs[n].source
      /\ runs[n].source \in Commits
      /\ Active(n)
  BY DEF Uploaded, IInv, TypeOK, Runs, Active
<1>2. \A m \in Ids : m # n => runs[m].pc # "publish" /\ runs'[m].pc # "publish"
  BY <1>1, OnlyThisJob DEF Uploaded
<1>3. Publisher = runs[n].source /\ Publisher # NoCommit
  BY <1>1, <1>2, PublisherIs, Contents
<1>4. runs'[n].pc = "publish" => Publisher' = Publisher
  BY <1>1, <1>2, <1>3, PublisherBecomes
<1>5. runs'[n].pc # "publish" => Publisher' = NoCommit
  BY <1>2 DEF Publisher
<1>6. CASE remote' = remote /\ runs'[n].pc = "failed"
  BY <1>5, <1>6 DEF Coordinate!End, Coordinate!CoordinateNext
<1>7. ASSUME NEW a \in Artifacts, remote[a] = Missing,
             remote' = [remote EXCEPT ![a] = Pinned[runs[n].source][a]]
      PROVE  Coordinate!Add(a)
  BY <1>3, <1>4, <1>5, <1>7 DEF Coordinate!Add
<1> QED
  BY <1>6, <1>7 DEF Uploaded, Coordinate!CoordinateNext

\* A push and a deletion change nobody's publication.
LEMMA SurroundingsRefine ==
  ASSUME IInv, DeleteVersion \/ \E c \in Commits : MainMoves(c)
  PROVE  [Coordinate!CoordinateNext]_(Coordinate!coordinateVars)
<1>1. CASE DeleteVersion
  <2>1. remote' = Coordinate!Empty
    BY <1>1 DEF DeleteVersion, NoFiles, Coordinate!Empty
  <2>2. Publisher' = Publisher
    BY <1>1 DEF DeleteVersion, Publisher
  <2> QED
    BY <2>1, <2>2 DEF Coordinate!Delete, Coordinate!CoordinateNext
<1>2. ASSUME NEW c \in Commits, MainMoves(c)
      PROVE  UNCHANGED Coordinate!coordinateVars
  <2>1. ASSUME NEW m \in Ids
        PROVE  \/ runs'[m] = runs[m]
               \/ runs[m].pc # "publish" /\ runs'[m].pc # "publish"
    <3>1. TypeOK /\ c \in Commits
      BY DEF IInv
    <3>2. /\ Over(m, "failed").pc = "failed"
      BY <3>1, OverIs DEF Steps
    <3>3. [NoRun EXCEPT !.pc = "queued", !.source = c].pc = "queued"
      BY DEF NoRun
    <3> QED
      BY <1>2, <3>2, <3>3 DEF MainMoves
  <2>2. \A m \in Ids : runs'[m].pc = "publish" <=> runs[m].pc = "publish"
    BY <2>1
  <2>3. CASE \E m \in Ids : runs[m].pc = "publish"
    <3>1. PICK m \in Ids : runs[m].pc = "publish"
      BY <2>3
    <3>2. \A k \in Ids : k # m => runs[k].pc # "publish"
      BY <3>1 DEF IInv, OneJob, Active
    <3>3. Publisher = runs[m].source
      BY <3>1, <3>2, PublisherIs
    <3>4. runs'[m] = runs[m]
      BY <2>1, <3>1
    <3>5. \A k \in Ids : k # m => runs'[k].pc # "publish"
      BY <2>2, <3>2
    <3>6. Publisher' = runs'[m].source
      BY <3>1, <3>4, <3>5, PublisherBecomes
    <3> QED
      BY <1>2, <3>3, <3>4, <3>6 DEF MainMoves, Coordinate!coordinateVars
  <2>4. CASE ~ \E m \in Ids : runs[m].pc = "publish"
    <3>1. Publisher = NoCommit /\ Publisher' = NoCommit
      BY <2>2, <2>4 DEF Publisher
    <3> QED
      BY <1>2, <3>1 DEF MainMoves, Coordinate!coordinateVars
  <2> QED
    BY <2>3, <2>4
<1> QED
  BY <1>1, <1>2

\* What is there at first are files of one commit.
LEMMA InitRefines == Init => Coordinate!CoordinateInit
<1> SUFFICES ASSUME Init
             PROVE  Coordinate!CoordinateInit
  OBVIOUS
<1>1. Publisher = NoCommit
  BY DEF Init, NoRun, Publisher
<1>2. PICK c \in Commits :
        \A a \in Artifacts : remote[a] \in {Missing, Pinned[c][a]}
  BY DEF Init, OneCommit
<1>3. remote \in [Artifacts -> Bytes \cup {Missing}]
  BY DEF Init, Files
<1> DEFINE present == {a \in Artifacts : remote[a] # Missing}
<1>4. remote = [a \in Artifacts |-> IF a \in present THEN Pinned[c][a] ELSE Missing]
  BY <1>2, <1>3
<1>5. present \in SUBSET Artifacts
  OBVIOUS
<1> QED
  BY <1>1, <1>4, <1>5 DEF Coordinate!CoordinateInit

\* The workflow keeps the promise of the immutable coordinate: a publication
\* begins only on an empty coordinate, replaces nothing, and is never joined
\* or completed by another job.
THEOREM WorkflowImplementsCoordinate == Spec => CoordinateSpec
<1>1. IInv /\ [Next]_vars => [Coordinate!CoordinateNext]_(Coordinate!coordinateVars)
  <2> SUFFICES ASSUME IInv, [Next]_vars
               PROVE  [Coordinate!CoordinateNext]_(Coordinate!coordinateVars)
    OBVIOUS
  <2>1. CASE DeleteVersion \/ \E c \in Commits : MainMoves(c)
    BY <2>1, SurroundingsRefine
  <2>2. ASSUME NEW n \in Ids, JobStep(n) \/ Crash(n)
        PROVE  [Coordinate!CoordinateNext]_(Coordinate!coordinateVars)
    BY <2>2, QuietSteps, QuietRefines, UploadIs, UploadRefines
  <2>3. CASE UNCHANGED vars
    BY <2>3 DEF vars, Publisher, Coordinate!coordinateVars
  <2> QED
    BY <2>1, <2>2, <2>3 DEF Next
<1> QED
  BY <1>1, InitRefines, Invariance, PTL
     DEF Spec, CoordinateSpec, Coordinate!CoordinateSpec
===============================================================================
