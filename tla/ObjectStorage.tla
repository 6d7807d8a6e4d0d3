----------------------------- MODULE ObjectStorage -----------------------------
(***************************************************************************)
(* S3ObjectStorage: put creates the bucket lazily, under a double-checked  *)
(* lock of its instance, and every service has instances of its own, so    *)
(* that threads share a lock but instances only share the bucket.  Any     *)
(* request may fail, before or after it took effect, with an S3Exception   *)
(* or, when the network fails, with another SdkException; an instance may  *)
(* be restarted at any time.                                               *)
(***************************************************************************)
EXTENDS Naturals

CONSTANTS
  Instances,       \* S3ObjectStorage beans, one per service process
  Threads,         \* request threads
  InstanceOf,      \* InstanceOf[t]: the instance thread t runs in
  Keys,            \* object keys
  NoThread,        \* nobody holds the monitor
  NoKey,           \* no call in progress
  MaxFailures,     \* bound: requests that fail
  MaxRestarts      \* bound: restarts of an instance

ASSUME Deployment ==
  /\ InstanceOf \in [Threads -> Instances]
  /\ NoThread \notin Threads
  /\ NoKey \notin Keys

ASSUME Bounds == MaxFailures \in Nat /\ MaxRestarts \in Nat

VARIABLES
  bucket,          \* the bucket: absent, private or public
  objects,         \* the keys stored in it
  bucketReady,     \* bucketReady[i]: the volatile flag of instance i
  monitor,         \* monitor[i]: the thread inside synchronized (this)
  threads,         \* where each thread stands
  results,         \* results[t]: how the last call of t ended
  failures,        \* failed requests so far
  restarts         \* restarts so far

vars == <<bucket, objects, bucketReady, monitor, threads, results, failures,
          restarts>>

-------------------------------------------------------------------------------
Steps == {"idle", "check", "enter", "recheck", "headBucket", "createBucket",
          "putBucketPolicy", "putObject", "deleteObject"}

Initializing == {"headBucket", "createBucket", "putBucketPolicy"}

Outcomes == {"none", "stored", "deleted", "StorageException", "otherException"}

Idle == [pc |-> "idle", key |-> NoKey]

Init ==
  /\ bucket \in {"absent", "public"}
  /\ objects = {}
  /\ bucketReady = [i \in Instances |-> FALSE]
  /\ monitor = [i \in Instances |-> NoThread]
  /\ threads = [t \in Threads |-> Idle]
  /\ results = [t \in Threads |-> "none"]
  /\ failures = 0
  /\ restarts = 0

At(t, step) == threads[t].pc = step

GoTo(t, step) == threads' = [threads EXCEPT ![t].pc = step]

Holds(t) == monitor[InstanceOf[t]] = t

\* Mutant: an exception leaves the monitor locked.
MutantKeepMonitor(t) == monitor' = monitor

\* Leaving the synchronized block, by return or by exception.
Leave(t) ==
  monitor' = [i \in Instances |-> IF monitor[i] = t THEN NoThread ELSE monitor[i]]

\* The call of t ends: it returns, or an exception leaves every block.
End(t, outcome) ==
  /\ threads' = [threads EXCEPT ![t] = Idle]
  /\ results' = [results EXCEPT ![t] = outcome]
  /\ Leave(t)

-------------------------------------------------------------------------------
(* Calls.                                                                  *)

Call(t, k, step) ==
  /\ At(t, "idle")
  /\ threads' = [threads EXCEPT ![t] = [pc |-> step, key |-> k]]
  /\ results' = [results EXCEPT ![t] = "none"]
  /\ UNCHANGED <<bucket, objects, bucketReady, monitor, failures, restarts>>

Put(t, k) == Call(t, k, "check")

Delete(t, k) == Call(t, k, "deleteObject")

\* ensureBucket, outside the lock.
Check(t) ==
  /\ At(t, "check")
  /\ GoTo(t, IF bucketReady[InstanceOf[t]] THEN "putObject" ELSE "enter")
  /\ UNCHANGED <<bucket, objects, bucketReady, monitor, results, failures,
                 restarts>>

Enter(t) ==
  /\ At(t, "enter")
  /\ monitor[InstanceOf[t]] = NoThread
  /\ monitor' = [monitor EXCEPT ![InstanceOf[t]] = t]
  /\ GoTo(t, "recheck")
  /\ UNCHANGED <<bucket, objects, bucketReady, results, failures, restarts>>

\* Mutant: the flag is not read again under the lock.
MutantRecheck(t) ==
  /\ At(t, "recheck")
  /\ GoTo(t, "headBucket")
  /\ UNCHANGED <<bucket, objects, bucketReady, monitor, results, failures,
                 restarts>>

Recheck(t) ==
  /\ At(t, "recheck")
  /\ IF bucketReady[InstanceOf[t]]
     THEN Leave(t) /\ GoTo(t, "putObject")
     ELSE UNCHANGED monitor /\ GoTo(t, "headBucket")
  /\ UNCHANGED <<bucket, objects, bucketReady, results, failures, restarts>>

\* Mutant: the flag is set before the bucket is known to exist.
MutantReady(t) == [bucketReady EXCEPT ![InstanceOf[t]] = TRUE]

\* The flag while headBucket's answer is handled.
ReadyAfterHead(t) ==
  [bucketReady EXCEPT ![InstanceOf[t]] = (bucket # "absent")]

\* headBucket: an existing bucket is ready as it is.
HeadBucket(t) ==
  /\ At(t, "headBucket")
  /\ bucketReady' = ReadyAfterHead(t)
  /\ IF bucket # "absent"
     THEN Leave(t) /\ GoTo(t, "putObject")
     ELSE UNCHANGED monitor /\ GoTo(t, "createBucket")
  /\ UNCHANGED <<bucket, objects, results, failures, restarts>>

\* createBucket: a store answers 409, an S3Exception nobody catches here, or
\* 200 when the bucket is there already.
CreateBucket(t) ==
  /\ At(t, "createBucket")
  /\ \/ /\ bucket' = IF bucket = "absent" THEN "private" ELSE bucket
        /\ GoTo(t, "putBucketPolicy")
        /\ UNCHANGED <<monitor, results>>
     \/ /\ bucket # "absent"
        /\ End(t, "otherException")
        /\ UNCHANGED bucket
  /\ UNCHANGED <<objects, bucketReady, failures, restarts>>

\* Mutant: no policy.
MutantNoPolicy == bucket

\* publicReadPolicy.
PublicRead == "public"

PutBucketPolicy(t) ==
  /\ At(t, "putBucketPolicy")
  /\ bucket' = PublicRead
  /\ bucketReady' = [bucketReady EXCEPT ![InstanceOf[t]] = TRUE]
  /\ Leave(t)
  /\ GoTo(t, "putObject")
  /\ UNCHANGED <<objects, results, failures, restarts>>

PutObject(t) ==
  /\ At(t, "putObject")
  /\ objects' = objects \cup {threads[t].key}
  /\ End(t, "stored")
  /\ UNCHANGED <<bucket, bucketReady, failures, restarts>>

\* deleteObject ignores a missing object, but not a missing bucket.
DeleteObject(t) ==
  /\ At(t, "deleteObject")
  /\ objects' = objects \ {threads[t].key}
  /\ End(t, IF bucket = "absent" THEN "StorageException" ELSE "deleted")
  /\ UNCHANGED <<bucket, bucketReady, failures, restarts>>

-------------------------------------------------------------------------------
(* Failures.                                                               *)

\* What the code makes of a failed request.  The catch clauses know
\* S3Exception only, and none surrounds createBucket and putBucketPolicy,
\* which run in a catch clause themselves.
Thrown(step, isS3) ==
  IF isS3 /\ step \in {"headBucket", "putObject", "deleteObject"}
  THEN "StorageException" ELSE "otherException"

\* A request fails; whether it took effect first is open.
RequestFails(t) ==
  /\ threads[t].pc \in Initializing \cup {"putObject", "deleteObject"}
  /\ failures < MaxFailures
  /\ failures' = failures + 1
  /\ \E isS3 \in BOOLEAN : End(t, Thrown(threads[t].pc, isS3))
  /\ \/ UNCHANGED <<bucket, objects>>
     \/ /\ At(t, "createBucket") /\ bucket = "absent"
        /\ bucket' = "private" /\ UNCHANGED objects
     \/ At(t, "putBucketPolicy") /\ bucket' = "public" /\ UNCHANGED objects
     \/ /\ At(t, "putObject")
        /\ objects' = objects \cup {threads[t].key} /\ UNCHANGED bucket
     \/ /\ At(t, "deleteObject")
        /\ objects' = objects \ {threads[t].key} /\ UNCHANGED bucket
  /\ UNCHANGED <<bucketReady, restarts>>

\* The process of instance i is restarted.
Restart(i) ==
  /\ restarts < MaxRestarts
  /\ restarts' = restarts + 1
  /\ bucketReady' = [bucketReady EXCEPT ![i] = FALSE]
  /\ monitor' = [monitor EXCEPT ![i] = NoThread]
  /\ threads' = [t \in Threads |-> IF InstanceOf[t] = i THEN Idle ELSE threads[t]]
  /\ results' = [t \in Threads |->
                   IF InstanceOf[t] = i THEN "none" ELSE results[t]]
  /\ UNCHANGED <<bucket, objects, failures>>

ThreadStep(t) ==
  \/ Check(t) \/ Enter(t) \/ Recheck(t) \/ HeadBucket(t) \/ CreateBucket(t)
  \/ PutBucketPolicy(t) \/ PutObject(t) \/ DeleteObject(t) \/ RequestFails(t)

Next ==
  \/ \E t \in Threads, k \in Keys : Put(t, k) \/ Delete(t, k)
  \/ \E t \in Threads : ThreadStep(t)
  \/ \E i \in Instances : Restart(i)

Spec == Init /\ [][Next]_vars

\* Threads run on, and a request is answered or fails.
FairSpec == Spec /\ \A t \in Threads : WF_vars(ThreadStep(t))

-------------------------------------------------------------------------------
(* Properties.                                                             *)

TypeOK ==
  /\ bucket \in {"absent", "private", "public"}
  /\ objects \subseteq Keys
  /\ bucketReady \in [Instances -> BOOLEAN]
  /\ monitor \in [Instances -> Threads \cup {NoThread}]
  /\ threads \in [Threads -> [pc : Steps, key : Keys \cup {NoKey}]]
  /\ results \in [Threads -> Outcomes]
  /\ failures \in Nat
  /\ restarts \in Nat

\* An instance that skips ensureBucket has a bucket, whatever failed on the
\* way: no failed creation is taken for a finished one.
ReadyMeansBucket ==
  \A i \in Instances : bucketReady[i] => bucket # "absent"

\* One thread of an instance initializes the bucket, and none does once the
\* instance is ready (the double-checked lock of ensureBucket).
OneInitializer ==
  \A t \in Threads : threads[t].pc \in Initializing =>
    /\ Holds(t)
    /\ ~bucketReady[InstanceOf[t]]
    /\ \A u \in Threads \ {t} :
         threads[u].pc \in Initializing => InstanceOf[u] # InstanceOf[t]

\* Every call comes to an end: no failure leaves the monitor locked.
CallsEnd == \A t \in Threads : threads[t].pc # "idle" ~> threads[t].pc = "idle"

\* As long as nothing fails, a bucket some instance created becomes public,
\* though another instance may store objects in it before.
CreatedBecomesPublic ==
  bucket = "private" ~> bucket = "public" \/ failures + restarts > 0

\* The URL put returns is a "public access URL" (ObjectStorage, line 15).
ReturnedUrlIsPublic ==
  \A t \in Threads : results[t] = "stored" => bucket = "public"
===============================================================================
