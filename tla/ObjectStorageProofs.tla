-------------------------- MODULE ObjectStorageProofs --------------------------
(***************************************************************************)
(* Proofs about ObjectStorage, for any instances, threads and keys and any *)
(* number of failures and restarts.                                        *)
(*                                                                         *)
(* Whoever works on the bucket holds the monitor of its instance, so that  *)
(* the flag it found unset under the lock stays unset until it sets it.    *)
(***************************************************************************)
EXTENDS ObjectStorage, TLAPS

\* The steps inside the synchronized block.
Locked == Initializing \cup {"recheck"}

\* A call is about a key.
KeyGiven == \A t \in Threads : threads[t].pc # "idle" => threads[t].key \in Keys

\* A monitor is held by a thread of its instance, and by every thread inside
\* the block.
MonitorHeld ==
  /\ \A i \in Instances : monitor[i] # NoThread => InstanceOf[monitor[i]] = i
  /\ \A t \in Threads : threads[t].pc \in Locked => Holds(t)

\* The flag is unset while a thread initializes the bucket.
FlagUnset ==
  \A t \in Threads :
    threads[t].pc \in Initializing => ~bucketReady[InstanceOf[t]]

IInv ==
  /\ TypeOK
  /\ KeyGiven
  /\ MonitorHeld
  /\ FlagUnset
  /\ ReadyMeansBucket

\* One instance uses the bucket, and nothing has failed.
Undisturbed ==
  /\ \A i, j \in Instances : i = j
  /\ failures = 0 /\ restarts = 0

\* A thread whose put is past ensureBucket, or has returned a URL.
PastEnsure(t) == threads[t].pc = "putObject" \/ results[t] = "stored"

\* An undisturbed bucket is private only in the hands of its initializer.
PublicInTime ==
  Undisturbed =>
    /\ bucket = "private" => \E t \in Threads : threads[t].pc = "putBucketPolicy"
    /\ \A t \in Threads : threads[t].pc = "createBucket" => bucket = "absent"
    /\ \A i \in Instances : bucketReady[i] => bucket = "public"
    /\ \A t \in Threads : PastEnsure(t) => bucket = "public"

-------------------------------------------------------------------------------
(* Where a thread goes.                                                    *)

\* Going on inside a call.
LEMMA GoToIs ==
  ASSUME TypeOK, NEW t \in Threads, NEW step \in Steps, GoTo(t, step)
  PROVE  /\ threads' \in [Threads -> [pc : Steps, key : Keys \cup {NoKey}]]
         /\ threads'[t].pc = step
         /\ threads'[t].key = threads[t].key
         /\ \A u \in Threads : u # t => threads'[u] = threads[u]
BY DEF TypeOK, GoTo

\* Leaving the block frees what the thread holds, and nothing else.
LEMMA LeaveIs ==
  ASSUME TypeOK, NEW t \in Threads, Leave(t)
  PROVE  /\ monitor' \in [Instances -> Threads \cup {NoThread}]
         /\ \A i \in Instances :
              IF monitor[i] = t THEN monitor'[i] = NoThread
                                ELSE monitor'[i] = monitor[i]
BY DEF TypeOK, Leave

\* The end of a call.
LEMMA EndIs ==
  ASSUME TypeOK, NEW t \in Threads, NEW outcome \in Outcomes, End(t, outcome)
  PROVE  /\ threads' \in [Threads -> [pc : Steps, key : Keys \cup {NoKey}]]
         /\ results' \in [Threads -> Outcomes]
         /\ threads'[t].pc = "idle"
         /\ \A u \in Threads : u # t => threads'[u] = threads[u]
         /\ Leave(t)
<1>1. Idle \in [pc : Steps, key : Keys \cup {NoKey}] /\ Idle.pc = "idle"
  BY DEF Idle, Steps
<1> QED
  BY <1>1 DEF TypeOK, End

\* Of the threads, only t moves, and it is in the block afterwards only if it
\* was before or has just entered; others keep what they hold.
Moves(t) ==
  /\ threads' \in [Threads -> [pc : Steps, key : Keys \cup {NoKey}]]
  /\ \A u \in Threads : u # t => threads'[u] = threads[u]
  /\ threads'[t].pc # "idle" => threads'[t].key \in Keys
  /\ \/ /\ UNCHANGED monitor
        /\ threads'[t].pc \in Locked => threads[t].pc \in Locked
     \/ Leave(t) /\ threads'[t].pc \notin Locked
     \/ /\ monitor[InstanceOf[t]] = NoThread
        /\ monitor' = [monitor EXCEPT ![InstanceOf[t]] = t]

\* Such a move keeps the monitors in order.
LEMMA MovesKeep ==
  ASSUME IInv, NEW t \in Threads, Moves(t)
  PROVE  /\ KeyGiven'
         /\ MonitorHeld'
         /\ monitor' \in [Instances -> Threads \cup {NoThread}]
<1>1. TypeOK /\ KeyGiven /\ MonitorHeld
  BY DEF IInv
<1>2. InstanceOf \in [Threads -> Instances] /\ NoThread \notin Threads
  BY Deployment
<1>3. KeyGiven'
  BY <1>1 DEF KeyGiven, Moves
<1>4. CASE /\ UNCHANGED monitor
           /\ threads'[t].pc \in Locked => threads[t].pc \in Locked
  BY <1>1, <1>2, <1>3, <1>4 DEF Moves, MonitorHeld, Holds, TypeOK
<1>5. CASE Leave(t) /\ threads'[t].pc \notin Locked
  <2>1. /\ monitor' \in [Instances -> Threads \cup {NoThread}]
        /\ \A i \in Instances :
             IF monitor[i] = t THEN monitor'[i] = NoThread
                               ELSE monitor'[i] = monitor[i]
    BY <1>1, <1>5, LeaveIs
  <2> QED
    BY <1>1, <1>2, <1>3, <1>5, <2>1 DEF Moves, MonitorHeld, Holds
<1>6. CASE /\ monitor[InstanceOf[t]] = NoThread
           /\ monitor' = [monitor EXCEPT ![InstanceOf[t]] = t]
  BY <1>1, <1>2, <1>3, <1>6 DEF Moves, MonitorHeld, Holds, TypeOK
<1> QED
  BY <1>4, <1>5, <1>6 DEF Moves

\* Two threads in the block are in different instances.
LEMMA OneInside ==
  ASSUME IInv, NEW t \in Threads, NEW u \in Threads, t # u,
         threads[t].pc \in Locked, threads[u].pc \in Locked
  PROVE  InstanceOf[t] # InstanceOf[u]
BY DEF IInv, MonitorHeld, Holds

-------------------------------------------------------------------------------
(* Steps that leave the flag and the bucket alone.                         *)

\* A step of t that leaves the flags alone and does not take the bucket away.
Plain(t) ==
  /\ Moves(t)
  /\ UNCHANGED bucketReady
  /\ threads'[t].pc \in Initializing =>
       threads[t].pc \in Initializing \/ ~bucketReady[InstanceOf[t]]
  /\ bucket' \in {"absent", "private", "public"}
  /\ bucket # "absent" => bucket' # "absent"
  /\ objects' \subseteq Keys
  /\ results' \in [Threads -> Outcomes]
  /\ failures' \in Nat /\ restarts' \in Nat

\* It keeps the invariant.
LEMMA PlainKeeps ==
  ASSUME IInv, NEW t \in Threads, Plain(t)
  PROVE  IInv'
<1>1. /\ KeyGiven' /\ MonitorHeld'
      /\ monitor' \in [Instances -> Threads \cup {NoThread}]
  BY MovesKeep DEF Plain
<1>2. TypeOK'
  BY <1>1 DEF Plain, Moves, IInv, TypeOK
<1>3. FlagUnset'
  BY DEF Plain, Moves, IInv, FlagUnset
<1>4. ReadyMeansBucket'
  BY DEF Plain, IInv, ReadyMeansBucket
<1> QED
  BY <1>1, <1>2, <1>3, <1>4 DEF IInv

\* A call begins.
LEMMA CallIsPlain ==
  ASSUME IInv, NEW t \in Threads, NEW k \in Keys, Put(t, k) \/ Delete(t, k)
  PROVE  Plain(t)
<1>1. PICK step \in {"check", "deleteObject"} : Call(t, k, step)
  BY DEF Put, Delete
<1>2. [pc |-> step, key |-> k] \in [pc : Steps, key : Keys \cup {NoKey}]
  BY DEF Steps
<1>3. step \notin Locked
  BY DEF Locked, Initializing
<1> QED
  BY <1>1, <1>2, <1>3 DEF Call, Plain, Moves, IInv, TypeOK, Outcomes, Locked

\* A call ends.
LEMMA EndMoves ==
  ASSUME IInv, NEW t \in Threads, NEW outcome \in Outcomes, End(t, outcome)
  PROVE  /\ Moves(t)
         /\ threads'[t].pc \notin Initializing
         /\ results' \in [Threads -> Outcomes]
BY EndIs DEF IInv, Moves, Locked, Initializing

\* Going on.
LEMMA GoToMoves ==
  ASSUME IInv, NEW t \in Threads, ~At(t, "idle"), NEW step \in Steps,
         GoTo(t, step),
         \/ UNCHANGED monitor /\ (step \in Locked => threads[t].pc \in Locked)
         \/ Leave(t) /\ step \notin Locked
         \/ /\ monitor[InstanceOf[t]] = NoThread
            /\ monitor' = [monitor EXCEPT ![InstanceOf[t]] = t]
  PROVE  Moves(t) /\ threads'[t].pc = step
BY GoToIs DEF IInv, KeyGiven, At, Moves

\* Steps inside a call that set no flag.
LEMMA CheckIsPlain ==
  ASSUME IInv, NEW t \in Threads, Check(t)
  PROVE  Plain(t)
<1>1. PICK step \in {"putObject", "enter"} : GoTo(t, step)
  BY DEF Check
<1>2. step \in Steps /\ step \notin Locked /\ step \notin Initializing
  BY DEF Steps, Locked, Initializing
<1>3. ~At(t, "idle") /\ UNCHANGED monitor
  BY DEF Check, At
<1>4. Moves(t) /\ threads'[t].pc = step
  BY <1>1, <1>2, <1>3, GoToMoves
<1> QED
  BY <1>2, <1>4 DEF Check, Plain, IInv, TypeOK

LEMMA EnterIsPlain ==
  ASSUME IInv, NEW t \in Threads, Enter(t)
  PROVE  Plain(t)
<1>1. "recheck" \in Steps /\ "recheck" \notin Initializing
  BY DEF Steps, Initializing
<1>2. ~At(t, "idle")
  BY DEF Enter, At
<1>3. Moves(t) /\ threads'[t].pc = "recheck"
  BY <1>1, <1>2, GoToMoves DEF Enter
<1> QED
  BY <1>1, <1>3 DEF Enter, Plain, IInv, TypeOK

LEMMA RecheckIsPlain ==
  ASSUME IInv, NEW t \in Threads, Recheck(t)
  PROVE  Plain(t)
<1>1. /\ {"putObject", "headBucket"} \subseteq Steps
      /\ "putObject" \notin Locked \cup Initializing
  BY DEF Steps, Locked, Initializing
<1>2. ~At(t, "idle") /\ threads[t].pc \in Locked
  BY DEF Recheck, At, Locked
<1>3. /\ Moves(t)
      /\ threads'[t].pc \in Initializing => ~bucketReady[InstanceOf[t]]
  <2>1. CASE bucketReady[InstanceOf[t]]
    BY <1>1, <1>2, <2>1, GoToMoves DEF Recheck
  <2>2. CASE ~bucketReady[InstanceOf[t]]
    BY <1>1, <1>2, <2>2, GoToMoves DEF Recheck
  <2> QED
    BY <2>1, <2>2
<1> QED
  BY <1>3 DEF Recheck, Plain, IInv, TypeOK

LEMMA CreateBucketIsPlain ==
  ASSUME IInv, NEW t \in Threads, CreateBucket(t)
  PROVE  Plain(t)
<1>1. /\ "putBucketPolicy" \in Steps /\ "otherException" \in Outcomes
      /\ threads[t].pc \in Locked /\ threads[t].pc \in Initializing
      /\ ~At(t, "idle")
  BY DEF CreateBucket, At, Steps, Outcomes, Locked, Initializing
<1>2. CASE GoTo(t, "putBucketPolicy") /\ UNCHANGED <<monitor, results>>
  <2>1. Moves(t)
    BY <1>1, <1>2, GoToMoves
  <2> QED
    BY <1>1, <1>2, <2>1 DEF CreateBucket, Plain, IInv, TypeOK
<1>3. CASE End(t, "otherException") /\ UNCHANGED bucket
  BY <1>1, <1>3, EndMoves DEF CreateBucket, Plain, IInv, TypeOK
<1> QED
  BY <1>2, <1>3 DEF CreateBucket

\* The object's own requests.
LEMMA ObjectIsPlain ==
  ASSUME IInv, NEW t \in Threads, PutObject(t) \/ DeleteObject(t)
  PROVE  Plain(t)
<1>1. PICK outcome \in Outcomes : End(t, outcome)
  BY DEF PutObject, DeleteObject, Outcomes
<1>2. threads[t].key \in Keys
  BY DEF PutObject, DeleteObject, At, IInv, KeyGiven
<1> QED
  BY <1>1, <1>2, EndMoves DEF PutObject, DeleteObject, Plain, IInv, TypeOK

\* A failed request.
LEMMA FailureIsPlain ==
  ASSUME IInv, NEW t \in Threads, RequestFails(t)
  PROVE  Plain(t)
<1>1. PICK outcome \in Outcomes : End(t, outcome)
  BY DEF RequestFails, Thrown, Outcomes
<1>2. threads[t].key \in Keys
  BY DEF RequestFails, Initializing, IInv, KeyGiven
<1>3. /\ objects' \subseteq Keys
      /\ bucket' \in {"absent", "private", "public"}
      /\ bucket # "absent" => bucket' # "absent"
  BY <1>2 DEF RequestFails, IInv, TypeOK
<1> QED
  BY <1>1, <1>3, EndMoves DEF RequestFails, Plain, IInv, TypeOK

-------------------------------------------------------------------------------
(* Steps that set the flag.                                                *)

\* The flag is set by the thread in the block, when there is a bucket.
LEMMA SetReadyKeeps ==
  ASSUME IInv, NEW t \in Threads, HeadBucket(t) \/ PutBucketPolicy(t)
  PROVE  IInv'
<1>1. /\ threads[t].pc \in Initializing /\ threads[t].pc \in Locked
      /\ ~At(t, "idle")
      /\ {"putObject", "createBucket"} \subseteq Steps
      /\ "putObject" \notin Locked \cup Initializing
  BY DEF HeadBucket, PutBucketPolicy, At, Steps, Locked, Initializing
<1>2. /\ UNCHANGED <<objects, results, failures, restarts>>
      /\ bucket' \in {"absent", "private", "public"}
      /\ bucket # "absent" => bucket' # "absent"
  BY DEF HeadBucket, PutBucketPolicy, PublicRead, IInv, TypeOK
<1>3. PICK ready \in BOOLEAN :
        /\ bucketReady' = [bucketReady EXCEPT ![InstanceOf[t]] = ready]
        /\ IF ready
           THEN bucket' # "absent" /\ Leave(t) /\ GoTo(t, "putObject")
           ELSE UNCHANGED monitor /\ GoTo(t, "createBucket")
  BY DEF HeadBucket, PutBucketPolicy, ReadyAfterHead, PublicRead
<1>4. /\ Moves(t)
      /\ ready => threads'[t].pc \notin Initializing
  <2>1. CASE ready
    BY <1>1, <1>3, <2>1, GoToMoves
  <2>2. CASE ~ready
    BY <1>1, <1>3, <2>2, GoToMoves
  <2> QED
    BY <2>1, <2>2
<1>5. /\ KeyGiven' /\ MonitorHeld'
      /\ monitor' \in [Instances -> Threads \cup {NoThread}]
  BY <1>4, MovesKeep
<1>6. /\ bucketReady' \in [Instances -> BOOLEAN]
      /\ bucketReady'[InstanceOf[t]] = ready
      /\ \A i \in Instances : i # InstanceOf[t] => bucketReady'[i] = bucketReady[i]
  BY <1>3, Deployment DEF IInv, TypeOK
<1>7. TypeOK'
  BY <1>2, <1>4, <1>5, <1>6 DEF Moves, IInv, TypeOK
<1>8. FlagUnset'
  <2>1. SUFFICES ASSUME NEW u \in Threads, threads'[u].pc \in Initializing
                 PROVE  ~bucketReady'[InstanceOf[u]]
    BY DEF FlagUnset
  <2>2. CASE u = t
    BY <1>4, <1>6, <2>1, <2>2
  <2>3. CASE u # t
    <3>1. threads[u].pc \in Initializing /\ threads[u].pc \in Locked
      BY <1>4, <2>1, <2>3 DEF Moves, Locked
    <3>2. InstanceOf[u] # InstanceOf[t]
      BY <1>1, <2>3, <3>1, OneInside
    <3> QED
      BY <1>6, <3>1, <3>2, Deployment DEF IInv, FlagUnset
  <2> QED
    BY <2>2, <2>3
<1>9. ReadyMeansBucket'
  BY <1>2, <1>3, <1>6 DEF IInv, ReadyMeansBucket
<1> QED
  BY <1>5, <1>7, <1>8, <1>9 DEF IInv

-------------------------------------------------------------------------------
(* Restarts.                                                               *)

\* A restarted instance has no threads in the block, and others their own.
LEMMA RestartKeeps ==
  ASSUME IInv, NEW i \in Instances, Restart(i)
  PROVE  IInv'
<1>1. TypeOK /\ KeyGiven /\ MonitorHeld /\ FlagUnset /\ ReadyMeansBucket
  BY DEF IInv
<1>2. /\ Idle \in [pc : Steps, key : Keys \cup {NoKey}] /\ Idle.pc = "idle"
      /\ "idle" \notin Locked /\ "idle" \notin Initializing
      /\ "none" \in Outcomes
  BY DEF Idle, Steps, Locked, Initializing, Outcomes
<1>3. /\ UNCHANGED <<bucket, objects, failures>> /\ restarts' \in Nat
      /\ bucketReady' \in [Instances -> BOOLEAN]
      /\ monitor' \in [Instances -> Threads \cup {NoThread}]
      /\ ~bucketReady'[i] /\ monitor'[i] = NoThread
      /\ \A j \in Instances : j # i =>
           bucketReady'[j] = bucketReady[j] /\ monitor'[j] = monitor[j]
  BY <1>1 DEF Restart, TypeOK
<1>4. /\ threads' \in [Threads -> [pc : Steps, key : Keys \cup {NoKey}]]
      /\ results' \in [Threads -> Outcomes]
      /\ \A t \in Threads :
           threads'[t] = IF InstanceOf[t] = i THEN Idle ELSE threads[t]
  BY <1>1, <1>2 DEF Restart, TypeOK
<1>5. TypeOK'
  BY <1>1, <1>3, <1>4 DEF TypeOK
<1>6. KeyGiven'
  BY <1>1, <1>2, <1>4 DEF KeyGiven
<1>7. MonitorHeld'
  <2>1. \A j \in Instances : monitor'[j] # NoThread => InstanceOf[monitor'[j]] = j
    BY <1>1, <1>3 DEF MonitorHeld
  <2>2. ASSUME NEW t \in Threads, threads'[t].pc \in Locked
        PROVE  Holds(t)'
    BY <1>1, <1>2, <1>3, <1>4, <2>2, Deployment DEF MonitorHeld, Holds
  <2> QED
    BY <2>1, <2>2 DEF MonitorHeld
<1>8. FlagUnset'
  BY <1>1, <1>2, <1>3, <1>4, Deployment DEF FlagUnset
<1>9. ReadyMeansBucket'
  BY <1>1, <1>3 DEF ReadyMeansBucket
<1> QED
  BY <1>5, <1>6, <1>7, <1>8, <1>9 DEF IInv

-------------------------------------------------------------------------------
(* The theorems.                                                           *)

\* Nobody has called yet.
LEMMA InitInvariant == Init => IInv
<1> SUFFICES ASSUME Init
             PROVE  IInv
  OBVIOUS
<1>1. /\ Idle \in [pc : Steps, key : Keys \cup {NoKey}] /\ Idle.pc = "idle"
      /\ "idle" \notin Locked /\ "idle" \notin Initializing
      /\ "none" \in Outcomes
  BY DEF Idle, Steps, Locked, Initializing, Outcomes
<1> QED
  BY <1>1 DEF Init, IInv, TypeOK, KeyGiven, MonitorHeld, FlagUnset, ReadyMeansBucket

\* Every step keeps the invariant.
LEMMA StepInvariant == IInv /\ [Next]_vars => IInv'
<1> SUFFICES ASSUME IInv, [Next]_vars
             PROVE  IInv'
  OBVIOUS
<1>1. ASSUME NEW t \in Threads, NEW k \in Keys, Put(t, k) \/ Delete(t, k)
      PROVE  IInv'
  BY <1>1, CallIsPlain, PlainKeeps
<1>2. ASSUME NEW t \in Threads, ThreadStep(t)
      PROVE  IInv'
  BY <1>2, CheckIsPlain, EnterIsPlain, RecheckIsPlain, CreateBucketIsPlain,
     ObjectIsPlain, FailureIsPlain, PlainKeeps, SetReadyKeeps DEF ThreadStep
<1>3. ASSUME NEW i \in Instances, Restart(i)
      PROVE  IInv'
  BY <1>3, RestartKeeps
<1>4. CASE UNCHANGED vars
  BY <1>4 DEF vars, IInv, TypeOK, KeyGiven, MonitorHeld, Holds, FlagUnset,
              ReadyMeansBucket
<1> QED
  BY <1>1, <1>2, <1>3, <1>4 DEF Next

\* The invariant holds throughout.
LEMMA Invariance == Spec => []IInv
BY InitInvariant, StepInvariant, PTL DEF Spec

\* Bucket, flags, monitors and threads have their types.
THEOREM TypeCorrect == Spec => []TypeOK
<1>1. IInv => TypeOK
  BY DEF IInv
<1> QED
  BY <1>1, Invariance, PTL

\* An instance that skips ensureBucket has a bucket.
THEOREM ReadyIsTrue == Spec => []ReadyMeansBucket
<1>1. IInv => ReadyMeansBucket
  BY DEF IInv
<1> QED
  BY <1>1, Invariance, PTL

\* One thread of an instance initializes the bucket, and only until the
\* instance is ready.
THEOREM InitializerIsAlone == Spec => []OneInitializer
<1>1. IInv => OneInitializer
  <2> SUFFICES ASSUME IInv
               PROVE  OneInitializer
    OBVIOUS
  <2>1. \A t \in Threads : threads[t].pc \in Initializing => threads[t].pc \in Locked
    BY DEF Locked
  <2>2. \A t \in Threads : threads[t].pc \in Initializing =>
          Holds(t) /\ ~bucketReady[InstanceOf[t]]
    BY <2>1 DEF IInv, MonitorHeld, FlagUnset
  <2> QED
    BY <2>1, <2>2, OneInside DEF OneInitializer
<1> QED
  BY <1>1, Invariance, PTL

-------------------------------------------------------------------------------
(* When the URL is public.                                                 *)

\* Steps that leave bucket and flags alone, and lead past ensureBucket only
\* where the bucket is known to be public.
LEMMA QuietKeepsPublic ==
  ASSUME IInv, PublicInTime, NEW t \in Threads,
         UNCHANGED <<bucket, bucketReady, failures, restarts>>,
         threads[t].pc # "putBucketPolicy",
         threads'[t].pc # "createBucket",
         \A u \in Threads : u # t => threads'[u] = threads[u] /\ results'[u] = results[u],
         threads'[t].pc = "putObject" \/ results'[t] = "stored" =>
           PastEnsure(t) \/ bucketReady[InstanceOf[t]]
  PROVE  PublicInTime'
<1>1. InstanceOf[t] \in Instances
  BY Deployment
<1> QED
  BY <1>1 DEF PublicInTime, PastEnsure, Undisturbed

\* The end of a call changes the result of its thread only.
LEMMA EndOthers ==
  ASSUME IInv, NEW t \in Threads, NEW outcome, End(t, outcome)
  PROVE  /\ threads'[t].pc = "idle" /\ results'[t] = outcome
         /\ \A u \in Threads : u # t => threads'[u] = threads[u] /\ results'[u] = results[u]
BY DEF IInv, TypeOK, End, Idle

\* A step of a thread keeps the bucket public in time.
LEMMA ThreadKeepsPublic ==
  ASSUME IInv, PublicInTime, NEW t \in Threads, ThreadStep(t)
  PROVE  PublicInTime'
<1>1. TypeOK /\ InstanceOf[t] \in Instances
  BY Deployment DEF IInv
<1>2. CASE Check(t)
  BY <1>1, <1>2, QuietKeepsPublic DEF Check, At, GoTo, TypeOK, PastEnsure
<1>3. CASE Enter(t)
  BY <1>1, <1>3, QuietKeepsPublic DEF Enter, At, GoTo, TypeOK, PastEnsure
<1>4. CASE Recheck(t)
  BY <1>1, <1>4, QuietKeepsPublic DEF Recheck, At, GoTo, TypeOK, PastEnsure
<1>5. CASE HeadBucket(t)
  <2> SUFFICES ASSUME Undisturbed'
               PROVE  PublicInTime'
    BY DEF PublicInTime
  <2>1. Undisturbed
    BY <1>5 DEF HeadBucket, Undisturbed
  <2>2. bucket # "private"
    <3>1. SUFFICES ASSUME bucket = "private"
                   PROVE  FALSE
      OBVIOUS
    <3>2. PICK u \in Threads : threads[u].pc = "putBucketPolicy"
      BY <2>1, <3>1 DEF PublicInTime
    <3>3. t # u /\ threads[t].pc \in Locked /\ threads[u].pc \in Locked
      BY <1>5, <3>2 DEF HeadBucket, At, Locked, Initializing
    <3> QED
      BY <2>1, <3>3, OneInside, Deployment DEF Undisturbed
  <2> QED
    BY <1>1, <1>5, <2>1, <2>2
       DEF HeadBucket, ReadyAfterHead, At, GoTo, TypeOK, PublicInTime, PastEnsure
<1>6. CASE CreateBucket(t)
  <2> SUFFICES ASSUME Undisturbed'
               PROVE  PublicInTime'
    BY DEF PublicInTime
  <2>1. Undisturbed /\ bucket = "absent"
    BY <1>6 DEF CreateBucket, At, Undisturbed, PublicInTime
  <2>2. \A u \in Threads : u # t => threads[u].pc # "createBucket"
    BY <1>6, <2>1, OneInside, Deployment
       DEF CreateBucket, At, Locked, Initializing, Undisturbed
  <2> QED
    BY <1>1, <1>6, <2>1, <2>2
       DEF CreateBucket, At, GoTo, TypeOK, PublicInTime, PastEnsure
<1>7. CASE PutBucketPolicy(t)
  <2> SUFFICES ASSUME Undisturbed'
               PROVE  PublicInTime'
    BY DEF PublicInTime
  <2>1. Undisturbed
    BY <1>7 DEF PutBucketPolicy, Undisturbed
  <2>2. \A u \in Threads : u # t => threads[u].pc # "createBucket"
    BY <1>7, <2>1, OneInside, Deployment
       DEF PutBucketPolicy, At, Locked, Initializing, Undisturbed
  <2> QED
    BY <1>1, <1>7, <2>1, <2>2
       DEF PutBucketPolicy, PublicRead, At, GoTo, TypeOK, PublicInTime, PastEnsure
<1>8. CASE PutObject(t) \/ DeleteObject(t)
  BY <1>8, EndOthers, QuietKeepsPublic DEF PutObject, DeleteObject, At, PastEnsure
<1>9. CASE RequestFails(t)
  BY <1>1, <1>9 DEF RequestFails, TypeOK, PublicInTime, Undisturbed
<1> QED
  BY <1>2, <1>3, <1>4, <1>5, <1>6, <1>7, <1>8, <1>9 DEF ThreadStep

\* So does every step.
LEMMA StepKeepsPublic == IInv /\ PublicInTime /\ [Next]_vars => PublicInTime'
<1> SUFFICES ASSUME IInv, PublicInTime, [Next]_vars
             PROVE  PublicInTime'
  OBVIOUS
<1>1. ASSUME NEW t \in Threads, NEW k \in Keys, Put(t, k) \/ Delete(t, k)
      PROVE  PublicInTime'
  <2>1. PICK step \in {"check", "deleteObject"} : Call(t, k, step)
    BY <1>1 DEF Put, Delete
  <2> QED
    BY <2>1, QuietKeepsPublic DEF Call, At, IInv, TypeOK
<1>2. ASSUME NEW i \in Instances, Restart(i)
      PROVE  PublicInTime'
  BY <1>2 DEF Restart, IInv, TypeOK, PublicInTime, Undisturbed
<1>3. CASE UNCHANGED vars
  BY <1>3 DEF vars, PublicInTime, Undisturbed, PastEnsure
<1> QED
  BY <1>1, <1>2, <1>3, ThreadKeepsPublic DEF Next

\* The URL of put is public, as ObjectStorage.java says, while one instance
\* alone uses the bucket and neither a request nor the instance has failed.
THEOREM UndisturbedUrlIsPublic == Spec => [](Undisturbed => ReturnedUrlIsPublic)
<1>1. Init => PublicInTime
  BY DEF Init, Idle, PublicInTime, PastEnsure
<1>2. PublicInTime => (Undisturbed => ReturnedUrlIsPublic)
  BY DEF PublicInTime, PastEnsure, ReturnedUrlIsPublic
<1>3. Spec => []PublicInTime
  BY <1>1, StepKeepsPublic, Invariance, PTL DEF Spec
<1> QED
  BY <1>2, <1>3, PTL
===============================================================================
