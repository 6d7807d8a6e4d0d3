------------------------- MODULE ImmutableImageProofs --------------------------
(***************************************************************************)
(* Proofs about RegistryClient and ImmutableImage, for any sources, builds *)
(* and manifests, any replies of the registry, and any number of jobs,     *)
(* foreign writes, retries and dying runners.                              *)
(*                                                                         *)
(* The concurrency group makes a job the only one that may write its tag,  *)
(* so that what it found there changes by somebody else's hand only.       *)
(***************************************************************************)
EXTENDS ImmutableImage, TLAPS

\* Some job n has pushed.
HasPushed(n) == \E p \in pushed : p.run = n

\* The steps that follow a step.
FromPreflight == {"preflight", "recheck", "push", "postflight", "poll", "upload"}
FromRecheck == FromPreflight \ {"preflight"}
AfterPush == {"postflight", "poll", "upload"}

\* The concurrency group: one active job per source.
OneJobPerSource ==
  \A m, n \in Ids :
    Active(m) /\ Active(n) /\ m # n => runs[m].source # runs[n].source

\* What job n may rely on when its record is r: it was established by earlier
\* steps, and nobody else can undo it.
RunSound(n, r) ==
  /\ r.pc \in FromPreflight => r.candidate \in Configs
  /\ r.pc \in FromRecheck => SourceOf[r.candidate] = r.source
  /\ r.pc = "push" =>
       /\ r.absent
       /\ r.seen <= foreign[r.source]
       /\ tag[r.source] = Absent \/ foreign[r.source] > r.seen
  /\ r.pc = "upload" =>
       /\ r.digest \in Digests
       /\ ConfigOf[r.digest] = r.candidate
       /\ foreign[r.source] = 0 => tag[r.source] = r.digest
  /\ r.pc \notin AfterPush \cup {"ended"} => ~HasPushed(n)
  /\ r.pc \in AfterPush => (r.absent <=> HasPushed(n))

\* What evidence e says stays true; its job has ended.
DocumentSound(e) ==
  /\ runs[e.run].pc = "ended"
  /\ ConfigOf[e.digest] = runs[e.run].candidate
  /\ SourceOf[ConfigOf[e.digest]] = e.source
  /\ e.mode = "published" <=> HasPushed(e.run)
  /\ foreign[e.source] = 0 => tag[e.source] = e.digest

IInv ==
  /\ TypeOK
  /\ OneJobPerSource
  /\ \A n \in Ids : RunSound(n, runs[n])
  /\ \A e \in evidence : DocumentSound(e)

-------------------------------------------------------------------------------
(* The registry client.                                                    *)

\* Whatever the registry, the storage and the network answer, a tag is free
\* only if it is, and only when the caller allows that; a manifest is the one
\* under the tag, and its config carries the source's revision.
THEOREM ClientIsTruthful ==
  ASSUME NEW d \in Digests \cup {Absent}, NEW source \in Sources,
         NEW allowAbsent \in BOOLEAN,
         NEW found \in Inspected[d][source][allowAbsent]
  PROVE  /\ found \in Digests \cup {Absent, ImageError, OSError}
         /\ found = Absent => d = Absent /\ allowAbsent
         /\ found \in Digests => found = d /\ SourceOf[ConfigOf[d]] = source
<1>1. PICK r \in Replies(d) : found = Inspect(d, source, allowAbsent, r)
  BY DEF Inspected
<1>2. \A reply : Failure(reply) \in {ImageError, OSError}
  BY DEF Failure
<1>3. {ImageError, OSError} \cap (Digests \cup {Absent}) = {} /\ Absent \notin Digests
  BY Contents
<1>4. r.manifest \in {IF d = Absent THEN "unknown" ELSE "ok"} \cup Faults
  BY DEF Replies
<1>5. CASE r.token # "ok"
  BY <1>1, <1>2, <1>3, <1>5 DEF Inspect
<1>6. CASE r.token = "ok" /\ r.manifest # "ok"
  <2>1. IsExactManifestAbsence(r.manifest) => d = Absent
    BY <1>4 DEF IsExactManifestAbsence, Faults
  <2> QED
    BY <1>1, <1>2, <1>3, <1>6, <2>1 DEF Inspect
<1>7. CASE r.token = "ok" /\ r.manifest = "ok"
  <2>1. d \in Digests
    BY <1>4, <1>7 DEF Faults
  <2> QED
    BY <1>1, <1>2, <1>3, <1>7, <2>1 DEF Inspect, ValidateRemoteImage
<1> QED
  BY <1>5, <1>6, <1>7

-------------------------------------------------------------------------------
(* Steps of a job that leave the tag and the evidence alone.               *)

\* What a job's record may become.
MayBecome(n, r) ==
  /\ r \in Runs
  /\ r.source = runs[n].source
  /\ r.pc \notin {"none", "queued", "ended"} =>
       \/ Active(n)
       \/ \A m \in Ids : Active(m) => runs[m].source # r.source
  /\ RunSound(n, r)

\* The job of a document has ended, so that a job that goes on has none.
LEMMA RecordKeeps ==
  ASSUME IInv, NEW n \in Ids, NEW r, MayBecome(n, r), runs[n].pc # "ended",
         runs' = [runs EXCEPT ![n] = r],
         UNCHANGED <<head, tag, evidence, pushed, foreign>>, crashes' \in Nat
  PROVE  IInv'
<1>1. TypeOK /\ r \in Runs
  BY DEF IInv, MayBecome
<1>2. /\ runs' \in [Ids -> Runs]
      /\ runs'[n] = r
      /\ \A m \in Ids : m # n => runs'[m] = runs[m]
  BY <1>1 DEF TypeOK
<1>3. TypeOK'
  BY <1>1, <1>2 DEF TypeOK
<1>4. OneJobPerSource'
  BY <1>2 DEF IInv, MayBecome, OneJobPerSource, Active
<1>5. \A m \in Ids : RunSound(m, runs[m])'
  BY <1>2 DEF IInv, MayBecome, RunSound, HasPushed
<1>6. \A e \in evidence' : DocumentSound(e)'
  <2>1. SUFFICES ASSUME NEW e \in evidence
                 PROVE  DocumentSound(e)'
    OBVIOUS
  <2>2. e.run \in Ids /\ runs[e.run].pc = "ended"
    BY <1>1 DEF IInv, DocumentSound, TypeOK
  <2>3. runs'[e.run] = runs[e.run]
    BY <1>2, <2>2
  <2> QED
    BY <2>3 DEF IInv, DocumentSound, HasPushed
<1> QED
  BY <1>3, <1>4, <1>5, <1>6 DEF IInv

\* A job may always end.
LEMMA MayEnd ==
  ASSUME IInv, NEW n \in Ids
  PROVE  MayBecome(n, [runs[n] EXCEPT !.pc = "ended"])
<1>1. runs[n] \in Runs
  BY DEF IInv, TypeOK
<1>2. /\ [runs[n] EXCEPT !.pc = "ended"] \in Runs
      /\ [runs[n] EXCEPT !.pc = "ended"].source = runs[n].source
      /\ [runs[n] EXCEPT !.pc = "ended"].pc = "ended"
  BY <1>1 DEF Runs, Steps
<1> QED
  BY <1>2 DEF MayBecome, RunSound, FromPreflight, FromRecheck, AfterPush

\* A step that goes on, or ends the job.
LEMMA ProceedKeeps ==
  ASSUME IInv, NEW n \in Ids, NEW ok, NEW next, Proceed(n, ok, next),
         runs[n].pc # "ended", ok => MayBecome(n, next)
  PROVE  IInv'
<1>1. UNCHANGED <<head, tag, evidence, pushed, foreign>> /\ crashes' \in Nat
  BY DEF Proceed, IInv, TypeOK
<1>2. CASE ok
  <2>1. runs' = [runs EXCEPT ![n] = next]
    BY <1>2 DEF Proceed
  <2> QED
    BY <1>1, <1>2, <2>1, RecordKeeps
<1>3. CASE ~ok
  <2>1. runs' = [runs EXCEPT ![n] = [runs[n] EXCEPT !.pc = "ended"]]
    BY <1>3 DEF Proceed
  <2> QED
    BY <1>1, <2>1, MayEnd, RecordKeeps
<1> QED
  BY <1>2, <1>3

\* An active job moves to another of its steps.
LEMMA ActiveBecomes ==
  ASSUME IInv, NEW n \in Ids, Active(n), NEW r \in Runs,
         r.source = runs[n].source, RunSound(n, r)
  PROVE  MayBecome(n, r)
BY DEF MayBecome

LEMMA StartJobKeeps ==
  ASSUME IInv, NEW n \in Ids, StartJob(n)
  PROVE  IInv'
<1> DEFINE r == [runs[n] EXCEPT !.pc = "verify"]
<1>1. runs[n] \in Runs /\ RunSound(n, runs[n])
  BY DEF IInv, TypeOK
<1>2. r \in Runs /\ r.source = runs[n].source /\ r.pc = "verify"
  BY <1>1 DEF Runs, Steps
<1>3. ~HasPushed(n)
  BY <1>1 DEF StartJob, RunSound, AfterPush
<1>4. MayBecome(n, r)
  BY <1>2, <1>3 DEF StartJob, MayBecome, RunSound, FromPreflight, FromRecheck,
                    AfterPush
<1> QED
  BY <1>4, ProceedKeeps DEF StartJob

LEMMA VerifySourceKeeps ==
  ASSUME IInv, NEW n \in Ids, VerifySource(n)
  PROVE  IInv'
<1> DEFINE r == [runs[n] EXCEPT !.pc = "build"]
<1>1. runs[n] \in Runs /\ RunSound(n, runs[n]) /\ Active(n)
  BY DEF IInv, TypeOK, VerifySource, Active
<1>2. r \in Runs /\ r.source = runs[n].source /\ r.pc = "build"
  BY <1>1 DEF Runs, Steps
<1>3. RunSound(n, r)
  BY <1>1, <1>2 DEF VerifySource, RunSound, FromPreflight, FromRecheck, AfterPush
<1>4. MayBecome(n, r)
  BY <1>1, <1>2, <1>3, ActiveBecomes
<1> QED
  BY <1>4, ProceedKeeps DEF VerifySource

LEMMA BuildKeeps ==
  ASSUME IInv, NEW n \in Ids, Build(n)
  PROVE  IInv'
<1>1. PICK c \in Configs :
        Proceed(n, TRUE, [runs[n] EXCEPT !.pc = "preflight", !.candidate = c])
  BY DEF Build
<1> DEFINE r == [runs[n] EXCEPT !.pc = "preflight", !.candidate = c]
<1>2. runs[n] \in Runs /\ RunSound(n, runs[n]) /\ Active(n)
  BY DEF IInv, TypeOK, Build, Active
<1>3. /\ r \in Runs /\ r.source = runs[n].source
      /\ r.pc = "preflight" /\ r.candidate = c
  BY <1>2 DEF Runs, Steps
<1>4. RunSound(n, r)
  BY <1>2, <1>3 DEF Build, RunSound, FromPreflight, FromRecheck, AfterPush
<1>5. MayBecome(n, r)
  BY <1>2, <1>3, <1>4, ActiveBecomes
<1> QED
  BY <1>1, <1>5, ProceedKeeps DEF Build

\* What a job reads of its tag.
LEMMA FoundIs ==
  ASSUME IInv, NEW n \in Ids, NEW allowAbsent \in BOOLEAN,
         NEW d \in Found(n, allowAbsent)
  PROVE  /\ d \in Digests \cup {Absent, ImageError, OSError}
         /\ d = Absent => tag[runs[n].source] = Absent
         /\ d \in Digests => d = tag[runs[n].source]
<1>1. tag[runs[n].source] \in Digests \cup {Absent} /\ runs[n].source \in Sources
  BY DEF IInv, TypeOK, Runs
<1> QED
  BY <1>1, ClientIsTruthful DEF Found

LEMMA PreflightKeeps ==
  ASSUME IInv, NEW n \in Ids, Preflight(n)
  PROVE  IInv'
<1>1. PICK d \in Found(n, TRUE) :
        Proceed(n,
          /\ CurrentSource(n) /\ LocalCandidate(n)
          /\ d = Absent \/ CandidateConfig(n, d),
          [runs[n] EXCEPT !.pc = "recheck", !.absent = (d = Absent),
                          !.digest = d])
  BY DEF Preflight
<1> DEFINE r == [runs[n] EXCEPT !.pc = "recheck", !.absent = (d = Absent),
                                !.digest = d]
<1>2. runs[n] \in Runs /\ RunSound(n, runs[n]) /\ Active(n)
  BY DEF IInv, TypeOK, Preflight, Active
<1>3. ASSUME LocalCandidate(n), d = Absent \/ CandidateConfig(n, d)
      PROVE  MayBecome(n, r)
  <2>1. d \in Digests \cup {Absent}
    BY <1>3 DEF CandidateConfig
  <2>2. /\ r \in Runs /\ r.source = runs[n].source
        /\ r.pc = "recheck" /\ r.candidate = runs[n].candidate
    BY <1>2, <2>1 DEF Runs, Steps
  <2>3. RunSound(n, r)
    BY <1>2, <1>3, <2>2
       DEF Preflight, LocalCandidate, RunSound, FromPreflight, FromRecheck, AfterPush
  <2> QED
    BY <1>2, <2>2, <2>3, ActiveBecomes
<1> QED
  BY <1>1, <1>3, ProceedKeeps DEF Preflight

LEMMA RecheckKeeps ==
  ASSUME IInv, NEW n \in Ids, Recheck(n)
  PROVE  IInv'
<1> DEFINE push == [runs[n] EXCEPT !.pc = "push", !.absent = TRUE,
                                   !.digest = Absent,
                                   !.seen = foreign[runs[n].source]]
           reuse(d) == [runs[n] EXCEPT !.pc = "postflight", !.absent = FALSE,
                                       !.digest = d]
           next(d) == IF ResolveRecheck(n, d) = "push" THEN push ELSE reuse(d)
<1>1. PICK d \in Found(n, TRUE) :
        Proceed(n,
          /\ CurrentSource(n) /\ LocalCandidate(n)
          /\ d \notin {ImageError, OSError}
          /\ ResolveRecheck(n, d) # "refuse",
          next(d))
  BY DEF Recheck
<1>2. runs[n] \in Runs /\ RunSound(n, runs[n]) /\ Active(n)
  BY DEF IInv, TypeOK, Recheck, Active
<1>3. foreign[runs[n].source] \in Nat /\ ~HasPushed(n) /\ runs[n].candidate \in Configs
  BY <1>2 DEF IInv, TypeOK, Runs, Recheck, RunSound, FromPreflight, AfterPush
<1>4. ASSUME LocalCandidate(n), ResolveRecheck(n, d) # "refuse"
      PROVE  MayBecome(n, next(d))
  <2>1. CASE d = Absent
    <3>1. ResolveRecheck(n, d) = "push"
      BY <1>4, <2>1 DEF ResolveRecheck
    <3>2. tag[runs[n].source] = Absent
      BY <2>1, FoundIs
    <3>3. /\ push \in Runs /\ push.source = runs[n].source /\ push.pc = "push"
          /\ push.candidate = runs[n].candidate /\ push.absent
          /\ push.seen = foreign[runs[n].source]
      BY <1>2, <1>3 DEF Runs, Steps
    <3> HIDE DEF push
    <3>4. RunSound(n, push)
      BY <1>3, <1>4, <3>2, <3>3
         DEF LocalCandidate, RunSound, FromPreflight, FromRecheck, AfterPush
    <3> QED
      BY <1>2, <3>1, <3>3, <3>4, ActiveBecomes
  <2>2. CASE d # Absent
    <3>1. ResolveRecheck(n, d) # "push" /\ d \in Digests
      BY <1>4, <2>2 DEF ResolveRecheck, CandidateConfig
    <3>2. /\ reuse(d) \in Runs /\ reuse(d).source = runs[n].source
          /\ reuse(d).pc = "postflight" /\ reuse(d).candidate = runs[n].candidate
          /\ ~reuse(d).absent
      BY <1>2, <3>1 DEF Runs, Steps
    <3> HIDE DEF reuse
    <3>3. RunSound(n, reuse(d))
      BY <1>3, <1>4, <3>2
         DEF LocalCandidate, RunSound, FromPreflight, FromRecheck, AfterPush
    <3> QED
      BY <1>2, <3>1, <3>2, <3>3, ActiveBecomes
  <2> QED
    BY <2>1, <2>2
<1> HIDE DEF next
<1> QED
  BY <1>1, <1>4, ProceedKeeps DEF Recheck

LEMMA PostflightKeeps ==
  ASSUME IInv, NEW n \in Ids, Postflight(n)
  PROVE  IInv'
<1> DEFINE r == [runs[n] EXCEPT !.pc = "poll"]
<1>1. runs[n] \in Runs /\ RunSound(n, runs[n]) /\ Active(n)
  BY DEF IInv, TypeOK, Postflight, Active
<1>2. /\ r \in Runs /\ r.source = runs[n].source /\ r.pc = "poll"
      /\ r.candidate = runs[n].candidate /\ r.absent = runs[n].absent
  BY <1>1 DEF Runs, Steps
<1> HIDE DEF r
<1>3. RunSound(n, r)
  BY <1>1, <1>2 DEF Postflight, RunSound, FromPreflight, FromRecheck, AfterPush
<1>4. MayBecome(n, r)
  BY <1>1, <1>2, <1>3, ActiveBecomes
<1> QED
  BY <1>4, ProceedKeeps DEF Postflight, r

\* Postflight accepts a manifest that is under the tag now.
LEMMA PollKeeps ==
  ASSUME IInv, NEW n \in Ids, Poll(n)
  PROVE  IInv'
<1> DEFINE accept(d) == [runs[n] EXCEPT !.pc = "upload", !.digest = d]
           again == [runs[n] EXCEPT !.tries = @ + 1]
<1>1. PICK d \in Found(n, FALSE) :
        IF Expected(n, d)
        THEN Proceed(n, TRUE, accept(d))
        ELSE Proceed(n, d # OSError /\ AttemptsLeft(n), again)
  BY DEF Poll
<1>2. /\ runs[n] \in Runs /\ RunSound(n, runs[n]) /\ Active(n)
      /\ runs[n].pc = "poll"
  BY DEF IInv, TypeOK, Poll, Active
<1>3. CASE Expected(n, d)
  <2>1. d \in Digests /\ ConfigOf[d] = runs[n].candidate
    BY <1>3 DEF Expected, CandidateConfig
  <2>2. d = tag[runs[n].source]
    BY <2>1, FoundIs
  <2>3. /\ accept(d) \in Runs /\ accept(d).source = runs[n].source
        /\ accept(d).pc = "upload" /\ accept(d).candidate = runs[n].candidate
        /\ accept(d).absent = runs[n].absent /\ accept(d).digest = d
    BY <1>2, <2>1 DEF Runs, Steps
  <2> HIDE DEF accept
  <2>4. RunSound(n, accept(d))
    BY <1>2, <2>1, <2>2, <2>3 DEF RunSound, FromPreflight, FromRecheck, AfterPush
  <2>5. MayBecome(n, accept(d))
    BY <1>2, <2>3, <2>4, ActiveBecomes
  <2> QED
    BY <1>1, <1>2, <1>3, <2>5, ProceedKeeps
<1>4. CASE ~Expected(n, d)
  <2>1. ASSUME AttemptsLeft(n)
        PROVE  MayBecome(n, again)
    <3>1. runs[n].tries + 1 \in 0 .. Retries
      BY <1>2, <2>1, Bounds DEF AttemptsLeft, Runs
    <3>2. /\ again \in Runs /\ again.source = runs[n].source
          /\ again.pc = "poll" /\ again.candidate = runs[n].candidate
          /\ again.absent = runs[n].absent
      BY <1>2, <3>1 DEF Runs
    <3> HIDE DEF again
    <3>3. RunSound(n, again)
      BY <1>2, <3>2 DEF RunSound, FromPreflight, FromRecheck, AfterPush
    <3> QED
      BY <1>2, <3>2, <3>3, ActiveBecomes
  <2> HIDE DEF again
  <2> QED
    BY <1>1, <1>2, <1>4, <2>1, ProceedKeeps
<1> QED
  BY <1>3, <1>4

-------------------------------------------------------------------------------
(* The steps that touch the tag or the evidence, and the surroundings.     *)

LEMMA CrashKeeps ==
  ASSUME IInv, NEW n \in Ids, Crash(n)
  PROVE  IInv'
<1>1. crashes' \in Nat /\ runs[n].pc # "ended"
  BY DEF IInv, TypeOK, Crash, Active
<1> QED
  BY <1>1, MayEnd, RecordKeeps DEF Crash

\* A push leaves evidence of its source alone: if nobody else wrote the tag,
\* the tag was free, and evidence says that it was not.
LEMMA DockerPushKeeps ==
  ASSUME IInv, NEW n \in Ids, DockerPush(n)
  PROVE  IInv'
<1>1. /\ TypeOK /\ runs[n] \in Runs /\ RunSound(n, runs[n]) /\ Active(n)
      /\ runs[n].pc = "push"
  BY DEF IInv, TypeOK, DockerPush, Active
<1>2. ASSUME runs' = [runs EXCEPT ![n].pc = "ended"], UNCHANGED <<tag, pushed>>
      PROVE  IInv'
  <2>1. crashes' \in Nat /\ UNCHANGED <<head, evidence, foreign>>
    BY <1>1 DEF TypeOK, DockerPush
  <2> QED
    BY <1>1, <1>2, <2>1, MayEnd, RecordKeeps
<1>3. ASSUME NEW d \in Digests, NEW ok \in BOOLEAN,
             ConfigOf[d] = runs[n].candidate,
             tag' = [tag EXCEPT ![runs[n].source] = d],
             pushed' = pushed \cup {[run |-> n, digest |-> d]},
             runs' = [runs EXCEPT ![n].pc = IF ok THEN "postflight" ELSE "ended"]
      PROVE  IInv'
  <2> DEFINE r == [runs[n] EXCEPT !.pc = IF ok THEN "postflight" ELSE "ended"]
  <2>1. UNCHANGED <<head, evidence, foreign, crashes>>
    BY DEF DockerPush
  <2>2. /\ r \in Runs /\ r.source = runs[n].source
        /\ r.pc \in {"postflight", "ended"} /\ r.candidate = runs[n].candidate
        /\ r.absent = runs[n].absent
    BY <1>1 DEF Runs, Steps
  <2>3. runs' = [runs EXCEPT ![n] = r]
    BY <1>3
  <2> HIDE DEF r
  <2>4. /\ runs' \in [Ids -> Runs]
        /\ runs'[n] = r
        /\ \A m \in Ids : m # n => runs'[m] = runs[m]
    BY <1>1, <2>2, <2>3 DEF TypeOK
  <2>5. /\ tag'[runs[n].source] = d
        /\ \A s \in Sources : s # runs[n].source => tag'[s] = tag[s]
        /\ tag' \in [Sources -> Digests \cup {Absent}]
        /\ runs[n].source \in Sources
    BY <1>1, <1>3 DEF TypeOK, Runs
  <2>6. TypeOK'
    BY <1>1, <1>3, <2>1, <2>4, <2>5 DEF TypeOK
  <2>7. OneJobPerSource'
    BY <1>1, <2>2, <2>4 DEF IInv, OneJobPerSource, Active
  <2>8. /\ HasPushed(n)'
        /\ \A m \in Ids : m # n => (HasPushed(m)' <=> HasPushed(m))
    <3>1. \A p : p \in pushed' <=> p \in pushed \/ p = [run |-> n, digest |-> d]
      BY <1>3
    <3>2. [run |-> n, digest |-> d].run = n
      OBVIOUS
    <3> QED
      BY <3>1, <3>2 DEF HasPushed
  <2>9. \A m \in Ids : RunSound(m, runs[m])'
    <3>1. RunSound(n, runs[n])'
      <4>1. r.pc \in {"postflight", "ended"} /\ runs'[n] = r
        BY <2>2, <2>4
      <4> QED
        BY <1>1, <2>2, <2>8, <4>1
           DEF RunSound, FromPreflight, FromRecheck, AfterPush
    <3>2. ASSUME NEW m \in Ids, m # n
          PROVE  RunSound(m, runs[m])'
      <4>1. RunSound(m, runs[m]) /\ runs[m] \in Runs /\ runs'[m] = runs[m]
        BY <1>1, <2>4, <3>2 DEF IInv, TypeOK
      <4>2. Active(m) => tag'[runs[m].source] = tag[runs[m].source]
        BY <1>1, <2>5, <3>2, <4>1 DEF IInv, OneJobPerSource, Runs
      <4>3. CASE Active(m)
        BY <2>1, <2>8, <3>2, <4>1, <4>2, <4>3 DEF RunSound
      <4>4. CASE ~Active(m)
        BY <2>1, <2>8, <3>2, <4>1, <4>4
           DEF RunSound, Active, FromPreflight, FromRecheck, AfterPush
      <4> QED
        BY <4>3, <4>4
    <3> QED
      BY <3>1, <3>2
  <2>10. \A e \in evidence' : DocumentSound(e)'
    <3>1. SUFFICES ASSUME NEW e \in evidence
                   PROVE  DocumentSound(e)'
      BY <2>1
    <3>2. /\ e.run \in Ids /\ e.source \in Sources /\ e.digest \in Digests
          /\ DocumentSound(e)
      BY <1>1 DEF IInv, TypeOK
    <3>3. e.run # n
      BY <1>1, <3>2 DEF DocumentSound
    <3>4. e.source = runs[n].source => foreign[e.source] # 0
      BY <1>1, <3>2, Contents DEF DocumentSound, RunSound, TypeOK, Runs
    <3> QED
      BY <2>1, <2>4, <2>5, <2>8, <3>2, <3>3, <3>4 DEF DocumentSound
  <2> QED
    BY <2>6, <2>7, <2>9, <2>10 DEF IInv
<1> QED
  BY <1>2, <1>3 DEF DockerPush

\* The document of a job says what the job knows.
LEMMA UploadKeeps ==
  ASSUME IInv, NEW n \in Ids, Upload(n)
  PROVE  IInv'
<1> DEFINE r == [runs[n] EXCEPT !.pc = "ended"]
<1>0. PICK document : document = EvidenceDocument(n)
  OBVIOUS
<1>1. /\ TypeOK /\ runs[n] \in Runs /\ RunSound(n, runs[n])
      /\ runs[n].pc = "upload"
  BY DEF IInv, TypeOK, Upload
<1>2. /\ MayBecome(n, r) /\ r.pc = "ended" /\ r \in Runs
      /\ r.source = runs[n].source /\ r.candidate = runs[n].candidate
  BY <1>1, MayEnd DEF Runs, Steps
<1>3. runs' = [runs EXCEPT ![n] = r]
  BY DEF Upload
<1> HIDE DEF r
<1>4. /\ runs' \in [Ids -> Runs]
      /\ runs'[n] = r
      /\ \A m \in Ids : m # n => runs'[m] = runs[m]
  BY <1>1, <1>2, <1>3 DEF TypeOK
<1>5. UNCHANGED <<head, tag, pushed, foreign, crashes>>
  BY DEF Upload
<1>6. /\ document.run = n /\ document.source = runs[n].source
      /\ document.digest = runs[n].digest /\ document.mode = PublishMode(n)
      /\ document \in [run : Ids, source : Sources, digest : Digests,
                       mode : {"published", "reused"}]
  BY <1>0, <1>1 DEF EvidenceDocument, PublishMode, RunSound, Runs
<1>7. evidence' \subseteq evidence \cup {document}
  BY <1>0 DEF Upload
<1>8. TypeOK'
  BY <1>1, <1>4, <1>5, <1>6, <1>7 DEF TypeOK
<1>9. OneJobPerSource'
  BY <1>2, <1>4 DEF IInv, OneJobPerSource, Active
<1>10. \A m \in Ids : RunSound(m, runs[m])'
  BY <1>2, <1>4, <1>5 DEF IInv, MayBecome, RunSound, HasPushed
<1>11. DocumentSound(document)'
  <2>1. /\ runs[n].digest \in Digests /\ ConfigOf[runs[n].digest] = runs[n].candidate
        /\ foreign[runs[n].source] = 0 => tag[runs[n].source] = runs[n].digest
        /\ SourceOf[runs[n].candidate] = runs[n].source
        /\ runs[n].absent <=> HasPushed(n)
    BY <1>1 DEF RunSound, FromPreflight, FromRecheck, AfterPush
  <2>2. document.mode = "published" <=> HasPushed(n)
    BY <1>6, <2>1 DEF PublishMode
  <2>3. runs'[document.run].pc = "ended" /\ runs'[document.run].candidate = runs[n].candidate
    BY <1>2, <1>4, <1>6
  <2> QED
    BY <1>5, <1>6, <2>1, <2>2, <2>3 DEF DocumentSound, HasPushed
<1>12. ASSUME NEW e \in evidence
       PROVE  DocumentSound(e)'
  <2>1. e.run \in Ids /\ DocumentSound(e) /\ e.run # n
    BY <1>1 DEF IInv, DocumentSound, TypeOK
  <2> QED
    BY <1>4, <1>5, <2>1 DEF DocumentSound, HasPushed
<1> QED
  BY <1>7, <1>8, <1>9, <1>10, <1>11, <1>12 DEF IInv

LEMMA MainMovesKeeps ==
  ASSUME IInv, NEW s \in Sources, MainMoves(s)
  PROVE  IInv'
<1> DEFINE queued == [NoRun EXCEPT !.pc = "queued", !.source = s]
           next(n, m) == IF m = n THEN queued
                         ELSE IF runs[m].pc = "queued" /\ runs[m].source = s
                              THEN [runs[m] EXCEPT !.pc = "ended"]
                              ELSE runs[m]
<1>1. PICK n \in Ids : runs[n].pc = "none" /\ runs' = [m \in Ids |-> next(n, m)]
  BY DEF MainMoves
<1>2. TypeOK /\ UNCHANGED <<tag, evidence, pushed, foreign, crashes>> /\ head' = s
  BY DEF IInv, MainMoves
<1>3. /\ queued \in Runs /\ queued.pc = "queued" /\ queued.source = s
  <2>1. NoRun \in Runs
    BY Bounds DEF Runs, Steps, NoRun
  <2> QED
    BY <2>1 DEF Runs, Steps
<1>4. ASSUME NEW m \in Ids
      PROVE  /\ [runs[m] EXCEPT !.pc = "ended"] \in Runs
             /\ [runs[m] EXCEPT !.pc = "ended"].pc = "ended"
             /\ [runs[m] EXCEPT !.pc = "ended"].source = runs[m].source
  BY <1>2 DEF TypeOK, Runs, Steps
<1> HIDE DEF queued
<1>5. ASSUME NEW m \in Ids
      PROVE  /\ runs'[m] \in Runs
             /\ \/ runs'[m] = runs[m] /\ m # n
                \/ runs'[m].pc \in {"queued", "ended"} /\ runs[m].pc \in {"none", "queued"}
             /\ m = n => runs'[m].pc = "queued"
  BY <1>1, <1>2, <1>3, <1>4 DEF TypeOK
<1>6. runs' \in [Ids -> Runs]
  BY <1>1, <1>5
<1> HIDE DEF next
<1>7. TypeOK'
  BY <1>2, <1>6 DEF TypeOK
<1>8. OneJobPerSource'
  BY <1>5 DEF IInv, OneJobPerSource, Active
<1>9. ASSUME NEW m \in Ids
      PROVE  RunSound(m, runs[m])'
  <2>1. RunSound(m, runs[m]) /\ (HasPushed(m)' <=> HasPushed(m))
    BY <1>2 DEF IInv, HasPushed
  <2>2. CASE runs'[m] = runs[m]
    BY <1>2, <2>1, <2>2 DEF RunSound
  <2>3. CASE /\ runs'[m].pc \in {"queued", "ended"}
             /\ runs[m].pc \in {"none", "queued"}
    <3>1. ~HasPushed(m)'
      BY <2>1, <2>3 DEF RunSound, AfterPush
    <3> QED
      BY <2>3, <3>1 DEF RunSound, FromPreflight, FromRecheck, AfterPush
  <2> QED
    BY <1>5, <2>2, <2>3
<1>10. ASSUME NEW e \in evidence
       PROVE  DocumentSound(e)'
  <2>1. e.run \in Ids /\ DocumentSound(e) /\ runs[e.run].pc = "ended"
    BY <1>2 DEF IInv, DocumentSound, TypeOK
  <2>2. runs'[e.run] = runs[e.run]
    BY <1>5, <2>1
  <2> QED
    BY <1>2, <2>1, <2>2 DEF DocumentSound, HasPushed
<1> QED
  BY <1>2, <1>7, <1>8, <1>9, <1>10 DEF IInv

\* What others write they count.
LEMMA ForeignWriteKeeps ==
  ASSUME IInv, NEW s \in Sources, ForeignWrite(s)
  PROVE  IInv'
<1>1. PICK d \in Digests \cup {Absent} : tag' = [tag EXCEPT ![s] = d]
  BY DEF ForeignWrite
<1>2. /\ TypeOK /\ UNCHANGED <<head, runs, evidence, pushed, crashes>>
      /\ foreign' = [foreign EXCEPT ![s] = @ + 1]
  BY DEF IInv, ForeignWrite
<1>3. TypeOK'
  BY <1>1, <1>2 DEF TypeOK
<1>4. ASSUME NEW t \in Sources
      PROVE  /\ foreign[t] \in Nat /\ foreign'[t] \in Nat
             /\ \/ tag'[t] = tag[t] /\ foreign'[t] = foreign[t]
                \/ foreign'[t] = foreign[t] + 1
  BY <1>1, <1>2 DEF TypeOK
<1>5. \A m \in Ids : HasPushed(m)' <=> HasPushed(m)
  BY <1>2 DEF HasPushed
<1>6. OneJobPerSource'
  BY <1>2 DEF IInv, OneJobPerSource, Active
<1>7. ASSUME NEW m \in Ids
      PROVE  RunSound(m, runs[m])'
  <2>1. /\ RunSound(m, runs[m]) /\ runs'[m] = runs[m]
        /\ runs[m].source \in Sources /\ runs[m].seen \in Nat
    BY <1>2 DEF IInv, TypeOK, Runs
  <2> QED
    BY <1>4, <1>5, <2>1 DEF RunSound
<1>8. ASSUME NEW e \in evidence
      PROVE  DocumentSound(e)'
  <2>1. e.run \in Ids /\ e.source \in Sources /\ DocumentSound(e)
    BY <1>2 DEF IInv, TypeOK
  <2> QED
    BY <1>2, <1>4, <1>5, <2>1 DEF DocumentSound
<1> QED
  BY <1>2, <1>3, <1>6, <1>7, <1>8 DEF IInv

-------------------------------------------------------------------------------
(* The specification.                                                      *)

LEMMA InitInvariant == Init => IInv
<1> SUFFICES ASSUME Init
             PROVE  IInv
  OBVIOUS
<1>1. \A n \in Ids : runs[n] = NoRun /\ ~HasPushed(n)
  BY DEF Init, HasPushed
<1>2. NoRun \in Runs /\ NoRun.pc = "none"
  BY Bounds DEF NoRun, Runs, Steps
<1>3. TypeOK
  BY <1>2, Bounds DEF Init, TypeOK
<1>4. OneJobPerSource
  BY <1>1, <1>2 DEF OneJobPerSource, Active
<1>5. \A n \in Ids : RunSound(n, runs[n])
  BY <1>1, <1>2 DEF RunSound, FromPreflight, FromRecheck, AfterPush
<1> QED
  BY <1>3, <1>4, <1>5 DEF IInv, Init

LEMMA StepInvariant == IInv /\ [Next]_vars => IInv'
<1> SUFFICES ASSUME IInv, [Next]_vars
             PROVE  IInv'
  OBVIOUS
<1>1. CASE UNCHANGED vars
  BY <1>1 DEF vars, IInv, TypeOK, OneJobPerSource, Active, RunSound, HasPushed,
              DocumentSound
<1>2. CASE \E s \in Sources : MainMoves(s) \/ ForeignWrite(s)
  BY <1>2, MainMovesKeeps, ForeignWriteKeeps
<1>3. ASSUME NEW n \in Ids, JobStep(n) \/ Crash(n)
      PROVE  IInv'
  BY <1>3, StartJobKeeps, VerifySourceKeeps, BuildKeeps, PreflightKeeps,
     RecheckKeeps, DockerPushKeeps, PostflightKeeps, PollKeeps, UploadKeeps,
     CrashKeeps DEF JobStep
<1> QED
  BY <1>1, <1>2, <1>3 DEF Next

LEMMA Invariance == Spec => []IInv
BY InitInvariant, StepInvariant, PTL DEF Spec

\* Every variable keeps its type; no job polls more than Retries times.
THEOREM TypeCorrect == Spec => []TypeOK
<1>1. IInv => TypeOK
  BY DEF IInv
<1> QED
  BY <1>1, Invariance, PTL

\* Evidence names an image with the config its job built from the source it
\* names, whoever wrote the tag (require_candidate_config).
THEOREM EvidenceIsOfCandidate == Spec => []EvidenceIsCandidate
<1>1. IInv => EvidenceIsCandidate
  BY DEF IInv, DocumentSound, EvidenceIsCandidate
<1> QED
  BY <1>1, Invariance, PTL

\* Evidence says "published" exactly when its job pushed, though the answer
\* to a push may be lost and the tag be rewritten.
THEOREM ModeIsRight == Spec => []ModeIsTrue
<1>1. IInv => ModeIsTrue
  BY DEF IInv, DocumentSound, HasPushed, ModeIsTrue
<1> QED
  BY <1>1, Invariance, PTL

\* All evidence of a source names one image while only jobs write its tag.
THEOREM EvidenceOfSourceAgrees == Spec => []EvidenceAgrees
<1>1. IInv => EvidenceAgrees
  BY DEF IInv, DocumentSound, EvidenceAgrees
<1> QED
  BY <1>1, Invariance, PTL

\* A job pushes over an image only if somebody else wrote the tag after the
\* job's recheck: docker push itself checks nothing.
THEOREM TagIsNotOverwritten == Spec => NeverOverwritten
<1>1. IInv /\ [Next]_vars =>
        [\A n \in Ids :
           LET s == runs[n].source IN
           pushed' # pushed /\ runs[n].pc = "push" /\ runs'[n] # runs[n]
             => tag[s] = Absent \/ foreign[s] > runs[n].seen]_vars
  BY DEF IInv, RunSound
<1> QED
  BY <1>1, Invariance, PTL DEF Spec, NeverOverwritten
===============================================================================
