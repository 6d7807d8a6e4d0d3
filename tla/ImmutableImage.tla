---------------------------- MODULE ImmutableImage -----------------------------
(***************************************************************************)
(* The "image" job of ci.yml with immutable_migration_image.py: a push to  *)
(* Shared main builds the migration image of that source and gives it the  *)
(* source's tag, unless the tag already holds exactly that image.  Jobs of *)
(* one source run one after another (the concurrency group), jobs of       *)
(* different sources side by side; main moves on, the runner may die, and  *)
(* anyone with package write access may set or delete a tag.               *)
(***************************************************************************)
EXTENDS Naturals, RegistryClient

CONSTANTS
  FirstSource,     \* the commit main starts at
  MaxRuns,         \* bound: pushes to main that start a job
  Retries,         \* the registry reads of postflight
  MaxForeign,      \* bound: tag writes by others, per source
  MaxCrashes       \* bound: runners that die

ASSUME Bounds ==
  /\ FirstSource \in Sources
  /\ MaxRuns \in Nat /\ MaxForeign \in Nat /\ MaxCrashes \in Nat
  /\ Retries \in Nat \ {0}

VARIABLES
  head,            \* the head of Shared main
  tag,             \* tag[s]: the manifest tagged with source s, or Absent
  runs,            \* the jobs, by the push that started them
  evidence,        \* uploaded evidence
  pushed,          \* history: the manifests jobs pushed
  foreign,         \* foreign[s]: tag writes of s by others so far
  crashes          \* runners that died so far

vars == <<head, tag, runs, evidence, pushed, foreign, crashes>>

-------------------------------------------------------------------------------
Ids == 1 .. MaxRuns

Steps == {"none", "queued", "verify", "build", "preflight", "recheck", "push",
          "postflight", "poll", "upload", "ended"}

\* candidate: the local image; absent: what preflight or recheck said of the
\* tag; digest: the manifest they found; seen: foreign writes by then.
Runs == [pc : Steps, source : Sources, candidate : Configs \cup {Absent},
         absent : BOOLEAN, digest : Digests \cup {Absent}, tries : 0 .. Retries,
         seen : Nat]

NoRun == [pc |-> "none", source |-> FirstSource, candidate |-> Absent,
          absent |-> FALSE, digest |-> Absent, tries |-> 0, seen |-> 0]

Active(n) == runs[n].pc \notin {"none", "queued", "ended"}

Init ==
  /\ head = FirstSource
  /\ tag = [s \in Sources |-> Absent]
  /\ runs = [n \in Ids |-> NoRun]
  /\ evidence = {}
  /\ pushed = {}
  /\ foreign = [s \in Sources |-> 0]
  /\ crashes = 0

-------------------------------------------------------------------------------
(* Surroundings.                                                           *)

\* A push moves main, back to an earlier commit too, and queues a job.  Of
\* the jobs waiting for a concurrency group only the newest stays.
MainMoves(s) ==
  /\ s # head
  /\ head' = s
  /\ \E n \in Ids :
       /\ runs[n].pc = "none"
       /\ \A m \in Ids : m < n => runs[m].pc # "none"
       /\ runs' = [m \in Ids |->
            IF m = n THEN [NoRun EXCEPT !.pc = "queued", !.source = s]
            ELSE IF runs[m].pc = "queued" /\ runs[m].source = s
                 THEN [runs[m] EXCEPT !.pc = "ended"]
                 ELSE runs[m]]
  /\ UNCHANGED <<tag, evidence, pushed, foreign, crashes>>

\* Someone else pushes under the tag, or deletes it.
ForeignWrite(s) ==
  /\ foreign[s] < MaxForeign
  /\ foreign' = [foreign EXCEPT ![s] = @ + 1]
  /\ \E d \in Digests \cup {Absent} : d # tag[s] /\ tag' = [tag EXCEPT ![s] = d]
  /\ UNCHANGED <<head, runs, evidence, pushed, crashes>>

\* The runner is lost or times out, or a step fails for reasons of its own.
Crash(n) ==
  /\ Active(n)
  /\ crashes < MaxCrashes
  /\ crashes' = crashes + 1
  /\ runs' = [runs EXCEPT ![n].pc = "ended"]
  /\ UNCHANGED <<head, tag, evidence, pushed, foreign>>

-------------------------------------------------------------------------------
(* The job.  A failed check ends it.                                       *)

Proceed(n, ok, next) ==
  /\ runs' = [runs EXCEPT ![n] = IF ok THEN next ELSE [@ EXCEPT !.pc = "ended"]]
  /\ UNCHANGED <<head, tag, evidence, pushed, foreign, crashes>>

\* Mutant: no concurrency group.
MutantNoGroup(n) ==
  /\ runs[n].pc = "queued"
  /\ Proceed(n, TRUE, [runs[n] EXCEPT !.pc = "verify"])

StartJob(n) ==
  /\ runs[n].pc = "queued"
  /\ \A m \in Ids : Active(m) => runs[m].source # runs[n].source
  /\ Proceed(n, TRUE, [runs[n] EXCEPT !.pc = "verify"])

\* verify_ci_source: the source is the freshly fetched head of main.
CurrentSource(n) == runs[n].source = head

VerifySource(n) ==
  /\ runs[n].pc = "verify"
  /\ Proceed(n, CurrentSource(n), [runs[n] EXCEPT !.pc = "build"])

\* The build labels what it is told to, or not; builds of one source may
\* differ in their layers.
Build(n) ==
  /\ runs[n].pc = "build"
  /\ \E c \in Configs :
       Proceed(n, TRUE, [runs[n] EXCEPT !.pc = "preflight", !.candidate = c])

\* inspect_local_image and require_local_candidate_config: the loaded image
\* is the built one and carries the source's label.
LocalCandidate(n) == SourceOf[runs[n].candidate] = runs[n].source

\* Mutant: the revision label is enough, the config may be another one.
MutantAnyConfig(n, d) == d \in Digests

\* require_candidate_config on a validated manifest d.
CandidateConfig(n, d) ==
  /\ d \in Digests
  /\ ConfigOf[d] = runs[n].candidate

\* What the registry may be found to hold under the job's tag.
Found(n, allowAbsent) ==
  Inspected[tag[runs[n].source]][runs[n].source][allowAbsent]

Preflight(n) ==
  /\ runs[n].pc = "preflight"
  /\ \E d \in Found(n, TRUE) :
       Proceed(n,
         /\ CurrentSource(n) /\ LocalCandidate(n)
         /\ d = Absent \/ CandidateConfig(n, d),
         [runs[n] EXCEPT !.pc = "recheck", !.absent = (d = Absent),
                         !.digest = d])

\* resolve_recheck on what is there now, if that could be read.
ResolveRecheck(n, d) ==
  IF d = Absent
  THEN IF runs[n].absent THEN "push" ELSE "refuse"
  ELSE IF CandidateConfig(n, d) /\ (runs[n].absent \/ d = runs[n].digest)
       THEN "reuse" ELSE "refuse"

Recheck(n) ==
  /\ runs[n].pc = "recheck"
  /\ \E d \in Found(n, TRUE) :
       Proceed(n,
         /\ CurrentSource(n) /\ LocalCandidate(n)
         /\ d \notin {ImageError, OSError}
         /\ ResolveRecheck(n, d) # "refuse",
         IF ResolveRecheck(n, d) = "push"
         THEN [runs[n] EXCEPT !.pc = "push", !.absent = TRUE,
                              !.digest = Absent,
                              !.seen = foreign[runs[n].source]]
         ELSE [runs[n] EXCEPT !.pc = "postflight", !.absent = FALSE,
                              !.digest = d])

\* docker push sets the tag whatever it holds; the upload may fail, or its
\* answer may be lost.
DockerPush(n) ==
  /\ runs[n].pc = "push"
  /\ \/ \E d \in Digests, ok \in BOOLEAN :
          /\ ConfigOf[d] = runs[n].candidate
          /\ tag' = [tag EXCEPT ![runs[n].source] = d]
          /\ pushed' = pushed \cup {[run |-> n, digest |-> d]}
          /\ runs' = [runs EXCEPT ![n].pc = IF ok THEN "postflight"
                                                  ELSE "ended"]
     \/ /\ runs' = [runs EXCEPT ![n].pc = "ended"]
        /\ UNCHANGED <<tag, pushed>>
  /\ UNCHANGED <<head, evidence, foreign, crashes>>

Postflight(n) ==
  /\ runs[n].pc = "postflight"
  /\ Proceed(n, CurrentSource(n) /\ LocalCandidate(n),
             [runs[n] EXCEPT !.pc = "poll"])

\* What postflight accepts: the candidate, and for a reuse the very manifest
\* that was there before.
Expected(n, d) ==
  /\ CandidateConfig(n, d)
  /\ ~runs[n].absent => d = runs[n].digest

\* Mutant: the reads are counted, but the count ends nothing.
MutantUncounted(n) == TRUE

\* May postflight ask the registry again?
AttemptsLeft(n) == runs[n].tries + 1 < Retries

\* One attempt of postflight.  An ImageError, its own refusal included, is
\* tried again; an OSError passes the loop and ends the job.
Poll(n) ==
  /\ runs[n].pc = "poll"
  /\ \E d \in Found(n, FALSE) :
       IF Expected(n, d)
       THEN Proceed(n, TRUE, [runs[n] EXCEPT !.pc = "upload", !.digest = d])
       ELSE Proceed(n, d # OSError /\ AttemptsLeft(n),
                    [runs[n] EXCEPT !.tries = @ + 1])

\* Mutant: whatever is attested was published.
MutantMode(n) == "published"

PublishMode(n) == IF runs[n].absent THEN "published" ELSE "reused"

\* The evidence postflight writes.
EvidenceDocument(n) ==
  [run |-> n, source |-> runs[n].source, digest |-> runs[n].digest,
   mode |-> PublishMode(n)]

\* verify-evidence holds it against the job's own context.
VerifyEvidence(n, document) ==
  /\ document.run = n
  /\ document.source = runs[n].source
  /\ document.digest \in Digests
  /\ document.mode \in {"published", "reused"}

Upload(n) ==
  /\ runs[n].pc = "upload"
  /\ LET document == EvidenceDocument(n) IN
       evidence' = IF VerifyEvidence(n, document)
                   THEN evidence \cup {document} ELSE evidence
  /\ runs' = [runs EXCEPT ![n].pc = "ended"]
  /\ UNCHANGED <<head, tag, pushed, foreign, crashes>>

JobStep(n) ==
  \/ StartJob(n) \/ VerifySource(n) \/ Build(n) \/ Preflight(n) \/ Recheck(n)
  \/ DockerPush(n) \/ Postflight(n) \/ Poll(n) \/ Upload(n)

Next ==
  \/ \E s \in Sources : MainMoves(s) \/ ForeignWrite(s)
  \/ \E n \in Ids : JobStep(n) \/ Crash(n)

Spec == Init /\ [][Next]_vars

-------------------------------------------------------------------------------
(* Properties.                                                             *)

TypeOK ==
  /\ head \in Sources
  /\ tag \in [Sources -> Digests \cup {Absent}]
  /\ runs \in [Ids -> Runs]
  /\ evidence \subseteq [run : Ids, source : Sources, digest : Digests,
                         mode : {"published", "reused"}]
  /\ pushed \subseteq [run : Ids, digest : Digests]
  /\ foreign \in [Sources -> Nat]
  /\ crashes \in Nat

\* Whoever wrote the tag and whenever, evidence names an image whose config
\* is the one the job built from that source (require_candidate_config).
EvidenceIsCandidate ==
  \A e \in evidence :
    /\ ConfigOf[e.digest] = runs[e.run].candidate
    /\ SourceOf[ConfigOf[e.digest]] = e.source

\* Evidence says "published" exactly when its job pushed.
ModeIsTrue ==
  \A e \in evidence :
    e.mode = "published" <=> \E p \in pushed : p.run = e.run

\* A job replaces a tagged image only if somebody else wrote the tag after
\* the job's recheck: no two jobs ever write one tag ("reused ... and not
\* overwritten", README, Migration release gate), and no failure to read the
\* tag is taken for its absence.
NeverOverwritten ==
  [][\A n \in Ids :
       LET s == runs[n].source IN
       pushed' # pushed /\ runs[n].pc = "push" /\ runs'[n] # runs[n]
         => tag[s] = Absent \/ foreign[s] > runs[n].seen]_vars

\* While nobody else writes the tag, all evidence of a source names one
\* image, although builds may differ.
EvidenceAgrees ==
  \A e, f \in evidence :
    e.source = f.source /\ foreign[e.source] = 0 => e.digest = f.digest
===============================================================================
