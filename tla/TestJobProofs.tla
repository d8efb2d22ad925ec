--------------------------- MODULE TestJobProofs ---------------------------
(***************************************************************************)
(* Lemmas about the steps CurlTest and LoadTest share, for any number of   *)
(* tests, specs and disturbances.  Each step keeps the inductive           *)
(* invariant; the controllers' own proof modules put them together.        *)
(***************************************************************************)
EXTENDS TestJob, RuntimeProofs, FiniteSetTheorems

(* A worker that polls or is about to report took the test up undecided.   *)
SnapshotUndecided ==
  worker.pc \in {"poll", "status"} =>
    /\ revisions[active][worker.snap].live
    /\ revisions[active][worker.snap].status = Blank

VerdictMade == worker.pc = "status" => worker.verdict # Blank

TestInv == TestTypeOK /\ SnapshotUndecided /\ VerdictMade

-----------------------------------------------------------------------------
LEMMA JobsTyped ==
  ASSUME TestTypeOK, NEW k \in Keys
  PROVE  /\ Len(jobs[k]) \in Nat /\ jobSeen[k] \in 1..Len(jobs[k])
         /\ JobObj(k) \in Job /\ CachedJob(k) \in Job
<1>1. jobs[k] \in Seq(Job) BY DEF TestTypeOK
<1>2. Len(jobs[k]) \in Nat /\ jobs[k] \in [1..Len(jobs[k]) -> Job]
  BY <1>1, LenProperties
<1>3. jobSeen[k] \in 1..Len(jobs[k]) BY DEF TestTypeOK
<1> QED BY <1>2, <1>3 DEF JobObj, CachedJob

LEMMA StoreJobAppends ==
  ASSUME TestTypeOK, NEW k \in Keys, NEW job \in Job, StoreJob(k, job)
  PROVE  /\ jobs' \in [Keys -> Seq(Job)]
         /\ \A j \in Keys : Len(jobs'[j]) >= Len(jobs[j])
         /\ \A j \in Keys : Len(jobs'[j]) \in Nat
<1>1. jobs \in [Keys -> Seq(Job)] BY DEF TestTypeOK
<1>2. /\ jobs' \in [Keys -> Seq(Job)]
      /\ Len(jobs'[k]) = Len(jobs[k]) + 1
      /\ \A j \in Keys \ {k} : jobs'[j] = jobs[j]
  BY <1>1, AppendToOne DEF StoreJob
<1>3. \A j \in Keys : Len(jobs[j]) \in Nat BY <1>1, LenProperties
<1> QED BY <1>2, <1>3

-----------------------------------------------------------------------------
(* Appending a revision keeps the invariant, whatever the rest keeps.      *)
LEMMA StoreKeeps ==
  ASSUME TestInv, NEW k \in Keys, NEW object \in Object, Store(k, object),
         UNCHANGED <<seen, notify, queue, active, jobVars, worker>>,
         faults' \subseteq Faults
  PROVE  TestInv'
<1> USE DEF TestInv
<1>1. /\ revisions' \in [Keys -> Seq(Object)]
      /\ \A j \in Keys : Latest(j)' >= Latest(j)
      /\ \A j \in Keys : \A n \in 1..Latest(j) : revisions'[j][n] = revisions[j][n]
      /\ \A j \in Keys : Latest(j)' \in Nat /\ Latest(j) \in Nat
  <2>1. RuntimeTypeOK BY DEF TestTypeOK
  <2>2. revisions' \in [Keys -> Seq(Object)]
    BY <2>1, StoreAppends
  <2>3. \A j \in Keys : Latest(j) \in Nat BY <2>1, ObjectsTyped
  <2>4. \A j \in Keys : Latest(j)' \in Nat
    BY <2>2, LenProperties DEF Latest
  <2> QED BY <2>1, <2>2, <2>3, <2>4, StoreAppends
<1>2. RuntimeTypeOK'
  <2>1. \A j \in Keys : seen'[j] \in 1..Len(revisions'[j])
    <3>1. \A j \in Keys : seen[j] \in 1..Latest(j)
      BY DEF TestTypeOK, RuntimeTypeOK, Latest
    <3>2. \A j \in Keys : seen[j] \in 1..Latest(j)'
      BY <1>1, <3>1
    <3> QED BY <3>2 DEF Latest
  <2> QED BY <1>1, <2>1 DEF TestTypeOK, RuntimeTypeOK
<1>3. TestTypeOK'
  BY <1>2 DEF TestTypeOK, jobVars
<1>4. SnapshotUndecided'
  <2> SUFFICES ASSUME worker.pc \in {"poll", "status"}
               PROVE  /\ revisions'[active][worker.snap].live
                      /\ revisions'[active][worker.snap].status = Blank
    BY DEF SnapshotUndecided
  <2>1. active \in Keys /\ worker.snap \in 1..seen[active]
    BY DEF TestTypeOK, RuntimeTypeOK
  <2>2. seen[active] \in 1..Latest(active)
    BY <2>1 DEF TestTypeOK, RuntimeTypeOK, Latest
  <2>3. worker.snap \in 1..Latest(active)
    BY <1>1, <2>1, <2>2
  <2> QED BY <1>1, <2>1, <2>3 DEF SnapshotUndecided
<1>5. VerdictMade'
  BY DEF VerdictMade
<1> QED BY <1>3, <1>4, <1>5

LEMMA UserKeeps ==
  ASSUME TestInv, NEW k \in Keys, User(k), UNCHANGED <<jobVars, worker>>
  PROVE  TestInv'
<1>1. RuntimeTypeOK BY DEF TestInv, TestTypeOK
<1>2. /\ Latest(k) \in Nat /\ Obj(k) \in Object BY <1>1, ObjectsTyped
<1>3. ASSUME NEW spec \in Specs, UserCreates(k, spec) PROVE TestInv'
  <2>1. [live |-> TRUE, uid |-> Latest(k) + 1, spec |-> spec, status |-> Blank] \in Object
    BY <1>2, StatusAssumption DEF Object
  <2>2. faults' \subseteq Faults
    BY <1>1, <1>3, DisturbCounts DEF UserCreates, RuntimeTypeOK
  <2> QED BY <1>3, <2>1, <2>2, StoreKeeps DEF UserCreates
<1>4. ASSUME NEW spec \in Specs, UserEdits(k, spec) PROVE TestInv'
  <2>1. [Obj(k) EXCEPT !.spec = spec] \in Object BY <1>2 DEF Object
  <2> QED BY <1>1, <1>4, <2>1, DisturbCounts, StoreKeeps DEF UserEdits
<1>5. ASSUME UserDeletes(k) PROVE TestInv'
  <2>1. [Obj(k) EXCEPT !.live = FALSE] \in Object BY <1>2 DEF Object
  <2> QED BY <1>1, <1>5, <2>1, DisturbCounts, StoreKeeps DEF UserDeletes
<1> QED BY <1>3, <1>4, <1>5 DEF User

LEMMA InformerKeeps ==
  ASSUME TestInv, NEW k \in Keys, Informer(k), UNCHANGED <<jobVars, worker>>
  PROVE  TestInv'
<1>1. RuntimeTypeOK BY DEF TestInv, TestTypeOK
<1>2. \A j \in Keys : Latest(j) \in Nat /\ seen[j] \in 1..Latest(j)
  BY <1>1, ObjectsTyped
<1>3. /\ seen' \in [Keys -> Nat]
      /\ \A j \in Keys : seen'[j] \in 1..Latest(j) /\ seen'[j] >= seen[j]
      /\ UNCHANGED <<revisions, active>>
      /\ notify' \subseteq Keys /\ queue' \subseteq Keys
      /\ faults' \subseteq Faults
  <2>1. CASE InformerReceives(k)
    BY <1>1, <1>2, <2>1 DEF InformerReceives, RuntimeTypeOK
  <2>2. CASE HandlerEnqueues(k)
    BY <1>1, <1>2, <2>2 DEF HandlerEnqueues, RuntimeTypeOK
  <2>3. CASE Resync(k)
    BY <1>1, <1>2, <2>3 DEF Resync, RuntimeTypeOK
  <2>4. CASE ResyncLags(k)
    BY <1>1, <1>2, <2>4, DisturbCounts DEF ResyncLags, RuntimeTypeOK
  <2> QED BY <2>1, <2>2, <2>3, <2>4 DEF Informer
<1>4. TestTypeOK'
  <2>1. RuntimeTypeOK'
    BY <1>1, <1>3 DEF RuntimeTypeOK, Latest
  <2>2. active # NoKey => worker.snap \in 1..seen'[active]
    <3> SUFFICES ASSUME active # NoKey PROVE worker.snap \in 1..seen'[active]
      OBVIOUS
    <3>1. active \in Keys /\ worker.snap \in 1..seen[active]
      BY DEF TestInv, TestTypeOK, RuntimeTypeOK
    <3> QED BY <1>2, <1>3, <3>1
  <2> QED BY <1>3, <2>1, <2>2 DEF TestInv, TestTypeOK, jobVars
<1> QED BY <1>3, <1>4 DEF TestInv, SnapshotUndecided, VerdictMade

-----------------------------------------------------------------------------
(* What is known of the Jobs and pods after any step.                      *)
JobsTypeOK ==
  /\ jobs \in [Keys -> Seq(Job)]
  /\ jobSeen \in [Keys -> Nat]
  /\ \A k \in Keys : jobSeen[k] \in 1..Len(jobs[k])
  /\ pods \in [Keys -> SUBSET Nat]
  /\ podSeen \in [Keys -> SUBSET Nat]

LEMMA StoreJobTyped ==
  ASSUME TestTypeOK, NEW k \in Keys, NEW job \in Job, StoreJob(k, job),
         jobSeen' = jobSeen, pods' \in [Keys -> SUBSET Nat], podSeen' = podSeen
  PROVE  JobsTypeOK'
<1>1. /\ jobs' \in [Keys -> Seq(Job)]
      /\ \A j \in Keys : Len(jobs'[j]) \in Nat /\ Len(jobs'[j]) >= Len(jobs[j])
  BY StoreJobAppends
<1>2. \A j \in Keys : Len(jobs[j]) \in Nat /\ jobSeen[j] \in 1..Len(jobs[j])
  BY JobsTyped
<1>3. \A j \in Keys : jobSeen'[j] \in 1..Len(jobs'[j])
  BY <1>1, <1>2
<1> QED BY <1>1, <1>3 DEF JobsTypeOK, TestTypeOK

LEMMA SucceededTyped ==
  ASSUME NEW job \in Job, NEW log \in AnyLog
  PROVE  [job EXCEPT !.succeeded = 1, !.complete = TRUE, !.log = log] \in Job
<1>1. [job EXCEPT !.succeeded = 1] \in Job BY DEF Job
<1>2. [[job EXCEPT !.succeeded = 1] EXCEPT !.complete = TRUE] \in Job BY <1>1 DEF Job
<1> QED BY <1>2 DEF Job

LEMMA SucceededEarlyTyped ==
  ASSUME NEW job \in Job, NEW log \in AnyLog
  PROVE  [job EXCEPT !.succeeded = 1, !.log = log] \in Job
<1>1. [job EXCEPT !.succeeded = 1] \in Job BY DEF Job
<1> QED BY <1>1 DEF Job

LEMMA JobRemovedTyped ==
  ASSUME TestTypeOK, NEW k \in Keys, JobRemoved(k)
  PROVE  JobsTypeOK'
<1>1. [JobObj(k) EXCEPT !.live = FALSE] \in Job BY JobsTyped DEF Job
<1>2. pods' \in [Keys -> SUBSET Nat] BY DEF JobRemoved, TestTypeOK
<1> QED BY <1>1, <1>2, StoreJobTyped DEF JobRemoved

LEMMA ClusterKeeps ==
  ASSUME TestInv, NEW k \in Keys, Cluster(k)
  PROVE  TestInv'
<1> USE DEF TestInv
<1>1. JobObj(k) \in Job /\ Len(jobs[k]) \in Nat /\ RuntimeTypeOK
  BY JobsTyped DEF TestTypeOK
<1>2. JobsTypeOK'
  <2>1. CASE PodStarts(k)
    <3>1. pods[k] \cup {JobObj(k).id} \in SUBSET Nat BY <1>1 DEF TestTypeOK, Job
    <3> QED BY <1>1, <2>1, <3>1 DEF PodStarts, TestTypeOK, JobsTypeOK
  <2>2. ASSUME NEW log \in Logs, JobSucceeds(k, log) PROVE JobsTypeOK'
    <3>0. log \in AnyLog BY DEF AnyLog
    <3>1. [JobObj(k) EXCEPT !.succeeded = 1, !.complete = TRUE, !.log = log] \in Job
      BY <1>1, <3>0, SucceededTyped
    <3> QED BY <2>2, <3>1, StoreJobTyped DEF JobSucceeds, TestTypeOK
  <2>3. CASE JobFails(k)
    <3>1. [JobObj(k) EXCEPT !.failed = BackoffLimit + 1] \in Job
      BY <1>1 DEF Job, BackoffLimit
    <3> QED BY <2>3, <3>1, StoreJobTyped DEF JobFails, TestTypeOK
  <2>4. CASE JobCompletes(k)
    <3>1. [JobObj(k) EXCEPT !.complete = TRUE] \in Job
      BY <1>1 DEF Job
    <3> QED BY <2>4, <3>1, StoreJobTyped DEF JobCompletes, TestTypeOK
  <2>5. CASE JobSeen(k)
    BY <1>1, <2>5 DEF JobSeen, TestTypeOK, JobsTypeOK
  <2>6. CASE PodSeen(k)
    BY <2>6 DEF PodSeen, TestTypeOK, JobsTypeOK
  <2>7. CASE GarbageCollected(k)
    BY <2>7, JobRemovedTyped DEF GarbageCollected
  <2>8. CASE JobDeleted(k)
    BY <2>8, JobRemovedTyped DEF JobDeleted
  <2>9. CASE PodLost(k)
    <3>1. pods[k] \ {JobObj(k).id} \in SUBSET Nat BY DEF TestTypeOK
    <3> QED BY <2>9, <3>1 DEF PodLost, TestTypeOK, JobsTypeOK
  <2>10. ASSUME NEW log \in Logs, JobSucceedsEarly(k, log) PROVE JobsTypeOK'
    <3>0. log \in AnyLog BY DEF AnyLog
    <3>1. [JobObj(k) EXCEPT !.succeeded = 1, !.log = log] \in Job
      BY <1>1, <3>0, SucceededEarlyTyped
    <3> QED BY <2>10, <3>1, StoreJobTyped DEF JobSucceedsEarly, TestTypeOK
  <2>11. CASE PodCollected(k)
    <3>1. PICK id \in pods[k] : pods' = [pods EXCEPT ![k] = @ \ {id}]
      BY <2>11 DEF PodCollected
    <3>2. pods[k] \ {id} \in SUBSET Nat BY DEF TestTypeOK
    <3>3. pods' \in [Keys -> SUBSET Nat] BY <3>1, <3>2 DEF TestTypeOK
    <3> QED BY <2>11, <3>3 DEF PodCollected, TestTypeOK, JobsTypeOK
  <2> QED
    BY <2>1, <2>2, <2>3, <2>4, <2>5, <2>6, <2>7, <2>8, <2>9, <2>10, <2>11 DEF Cluster
<1>3. UNCHANGED <<revisions, seen, notify, queue, active, worker>>
  BY DEF Cluster, runtimeVars
<1>4. faults' \subseteq Faults
  <2>1. CASE UNCHANGED faults BY <1>1, <2>1 DEF RuntimeTypeOK
  <2>2. CASE \E fault \in Faults : Disturb(fault) BY <1>1, <2>2, DisturbCounts
  <2> QED BY <2>1, <2>2
    DEF Cluster, runtimeVars, JobDeleted, PodLost, JobSucceedsEarly, Disturb
<1>5. TestTypeOK'
  BY <1>1, <1>2, <1>3, <1>4 DEF TestTypeOK, RuntimeTypeOK, JobsTypeOK
<1> QED BY <1>3, <1>5 DEF SnapshotUndecided, VerdictMade

-----------------------------------------------------------------------------
(* The worker takes a key.                                                 *)
LEMMA StartPollingKeeps ==
  ASSUME TestInv, NEW k \in Keys, QueueGet(k), StartPolling(k),
         Cached(k).live, Cached(k).status = Blank,
         UNCHANGED <<revisions, seen, notify, faults>>, JobsTypeOK'
  PROVE  TestInv'
<1> USE DEF TestInv
<1>1. RuntimeTypeOK /\ seen[k] \in 1..Latest(k) /\ Latest(k) \in Nat
  BY ObjectsTyped DEF TestTypeOK
<1>2. worker' = [pc |-> "poll", snap |-> seen[k], sec |-> 10, verdict |-> Blank]
  BY DEF StartPolling, Idle
<1>3. active' = k /\ queue' \subseteq Keys
  BY <1>1 DEF QueueGet, RuntimeTypeOK
<1>4. RuntimeTypeOK'
  BY <1>1, <1>3 DEF RuntimeTypeOK
<1>5. TestTypeOK'
  BY <1>1, <1>2, <1>3, <1>4, KeysAssumption, StatusAssumption
  DEF TestTypeOK, JobsTypeOK, Worker
<1> QED BY <1>2, <1>3, <1>5 DEF SnapshotUndecided, VerdictMade, Cached

LEMMA NewJobTyped ==
  ASSUME TestTypeOK, NEW k \in Keys
  PROVE  newJobForCR(k, Cached(k)) \in Job
<1>1. Cached(k) \in Object /\ Len(jobs[k]) \in Nat
  BY ObjectsTyped, JobsTyped DEF TestTypeOK
<1>2. /\ Cached(k).uid \in Nat /\ Cached(k).spec \in Specs \cup {NoSpec}
      /\ Len(jobs[k]) + 1 \in Nat
  BY <1>1 DEF Object
<1>3. NoLog \in AnyLog BY DEF AnyLog
<1> QED BY <1>2, <1>3 DEF newJobForCR, Job

LEMMA BeginKeeps ==
  ASSUME TestInv, NEW k \in Keys, Begin(k)
  PROVE  TestInv'
<1> USE DEF TestInv
<1>1. JobsTypeOK /\ RuntimeTypeOK BY DEF TestTypeOK, JobsTypeOK
<1>2. newJobForCR(k, Cached(k)) \in Job BY NewJobTyped
<1>3. CASE BeginSkips(k)
  BY <1>3 DEF BeginSkips, TestTypeOK, RuntimeTypeOK, SnapshotUndecided, VerdictMade, jobVars
<1>4. CASE BeginFindsJob(k)
  <2>1. JobsTypeOK' BY <1>1, <1>4 DEF BeginFindsJob, JobsTypeOK, jobVars
  <2> QED BY <1>4, <2>1, StartPollingKeeps DEF BeginFindsJob
<1>5. CASE BeginCreatesJob(k)
  <2>1. JobsTypeOK'
    BY <1>1, <1>2, <1>5, StoreJobTyped DEF BeginCreatesJob, JobsTypeOK
  <2> QED BY <1>5, <2>1, StartPollingKeeps DEF BeginCreatesJob
<1>6. CASE BeginFails(k)
  <2>1. JobsTypeOK'
    <3>1. CASE UNCHANGED jobs BY <1>1, <1>6, <3>1 DEF BeginFails, JobsTypeOK
    <3>2. CASE StoreJob(k, newJobForCR(k, Cached(k)))
      BY <1>1, <1>2, <1>6, <3>2, StoreJobTyped DEF BeginFails, JobsTypeOK
    <3> QED BY <1>6, <3>1, <3>2 DEF BeginFails
  <2>2. faults' \subseteq Faults
    BY <1>1, <1>6, DisturbCounts DEF BeginFails, RuntimeTypeOK
  <2>3. UNCHANGED <<revisions, seen, notify, queue, active, worker>>
    BY <1>6 DEF BeginFails
  <2>4. TestTypeOK'
    BY <1>1, <2>1, <2>2, <2>3 DEF TestTypeOK, RuntimeTypeOK, JobsTypeOK
  <2> QED BY <2>3, <2>4 DEF SnapshotUndecided, VerdictMade
<1> QED BY <1>3, <1>4, <1>5, <1>6 DEF Begin

-----------------------------------------------------------------------------
(* The worker polls, decides, gives up, dies.                              *)
LEMMA PollingHoldsKey ==
  ASSUME TestInv, worker.pc # "idle"
  PROVE  active \in Keys /\ worker.snap \in 1..seen[active] /\ worker \in Worker
BY DEF TestInv, TestTypeOK, RuntimeTypeOK

LEMMA SnapshotTyped ==
  ASSUME TestInv, worker.pc # "idle"
  PROVE  /\ active \in Keys /\ worker.snap \in 1..Latest(active)
         /\ revisions[active][worker.snap] \in Object /\ worker \in Worker
<1>1. active \in Keys /\ worker.snap \in 1..seen[active] /\ worker \in Worker
  BY PollingHoldsKey
<1>2. seen[active] \in 1..Latest(active) /\ Latest(active) \in Nat
  BY <1>1, ObjectsTyped DEF TestInv, TestTypeOK
<1>3. worker.snap \in 1..Latest(active) BY <1>1, <1>2
<1> QED BY <1>1, <1>3, ObjectsTyped DEF TestInv, TestTypeOK

LEMMA DecideKeeps ==
  ASSUME TestInv, Polls, NEW verdict \in Statuses \ {Blank}, Decide(verdict),
         UNCHANGED <<runtimeVars, jobVars>>
  PROVE  TestInv'
<1>1. active \in Keys /\ worker \in Worker BY PollingHoldsKey DEF Polls
<1>2. /\ worker' \in Worker /\ worker'.pc = "status" /\ worker'.snap = worker.snap
      /\ worker'.verdict = verdict
  <2>1. [worker EXCEPT !.pc = "status"] \in Worker BY <1>1 DEF Worker
  <2> QED BY <1>1, <2>1 DEF Decide, Worker
<1>3. TestTypeOK'
  BY <1>1, <1>2, KeysAssumption
  DEF TestInv, TestTypeOK, RuntimeTypeOK, runtimeVars, jobVars
<1> QED BY <1>2, <1>3 DEF TestInv, SnapshotUndecided, VerdictMade, Polls, runtimeVars

LEMMA IdleKeeps ==
  ASSUME TestInv, active' = NoKey, worker' = Idle, RuntimeTypeOK', JobsTypeOK'
  PROVE  TestInv'
<1>1. /\ worker' \in Worker /\ worker'.pc = "idle"
  BY StatusAssumption DEF Idle, Worker
<1>2. TestTypeOK' BY <1>1 DEF TestTypeOK, JobsTypeOK
<1> QED BY <1>1, <1>2 DEF TestInv, SnapshotUndecided, VerdictMade

LEMMA RestartKeeps ==
  ASSUME TestInv, Restart, faults' \subseteq Faults
  PROVE  TestInv'
<1>1. RuntimeTypeOK /\ JobsTypeOK BY DEF TestInv, TestTypeOK, JobsTypeOK
<1>2. \A k \in Keys : Latest(k) \in Nat /\ Latest(k) >= 1 BY <1>1, ObjectsTyped
<1>3. \A k \in Keys : Len(jobs[k]) \in Nat /\ Len(jobs[k]) >= 1
  BY JobsTyped DEF TestInv
<1>4. RuntimeTypeOK'
  BY <1>1, <1>2 DEF Restart, RuntimeRestarts, RuntimeTypeOK, Latest
<1>5. JobsTypeOK'
  BY <1>1, <1>3 DEF Restart, JobsTypeOK
<1> QED BY <1>4, <1>5, IdleKeeps DEF Restart, RuntimeRestarts

LEMMA PollWaitsKeeps ==
  ASSUME TestInv, PollWaits
  PROVE  TestInv'
<1>1. RuntimeTypeOK /\ JobsTypeOK BY DEF TestInv, TestTypeOK, JobsTypeOK
<1>2. active \in Keys /\ worker \in Worker
  BY PollingHoldsKey
  DEF PollWaits, PollMissing, PollFailed, PollUnfinished, PollLogsFail, PollPanics, Polls
<1>3. {"Success", "Failure"} \subseteq Statuses \ {Blank} BY ResultsAssumption
<1>4. CASE PollMissing
  <2>1. CASE worker.sec = 200
    BY <1>3, <1>4, <2>1, DecideKeeps DEF PollMissing
  <2>2. CASE worker.sec # 200
    <3>1. worker' = [worker EXCEPT !.sec = SleepAfter(@)]
      BY <1>4, <2>2 DEF PollMissing
    <3>2. SleepAfter(worker.sec) \in {10, 30, 60, 200}
      BY <1>2 DEF SleepAfter, Worker
    <3>3. /\ worker' \in Worker /\ worker'.pc = worker.pc
          /\ worker'.snap = worker.snap /\ worker'.verdict = worker.verdict
      BY <1>2, <3>1, <3>2 DEF Worker
    <3>4. UNCHANGED <<runtimeVars, jobVars>> BY <1>4 DEF PollMissing
    <3>5. TestTypeOK'
      BY <1>2, <3>3, <3>4 DEF TestInv, TestTypeOK, RuntimeTypeOK, runtimeVars, jobVars
    <3> QED BY <3>3, <3>4, <3>5 DEF TestInv, SnapshotUndecided, VerdictMade, runtimeVars
  <2> QED BY <2>1, <2>2
<1>5. CASE PollFailed
  BY <1>3, <1>5, DecideKeeps DEF PollFailed
<1>6. CASE PollUnfinished
  <2>1. RuntimeTypeOK' /\ JobsTypeOK'
    BY <1>1, <1>6 DEF PollUnfinished, Done, RuntimeTypeOK, JobsTypeOK, jobVars
  <2> QED BY <1>6, <2>1, IdleKeeps DEF PollUnfinished, Done
<1>7. CASE PollLogsFail
  <2>1. faults' \subseteq Faults
    BY <1>1, <1>7, DisturbCounts DEF PollLogsFail, RuntimeTypeOK
  <2>2. RuntimeTypeOK' /\ JobsTypeOK'
    BY <1>1, <1>2, <1>7, <2>1 DEF PollLogsFail, Requeue, RuntimeTypeOK, JobsTypeOK, jobVars
  <2> QED BY <1>7, <2>2, IdleKeeps DEF PollLogsFail, Requeue
<1>8. CASE PollPanics
  BY <1>1, <1>8, RestartKeeps DEF PollPanics, RuntimeTypeOK
<1> QED BY <1>4, <1>5, <1>6, <1>7, <1>8 DEF PollWaits

(* The status write: only a copy that is the latest one goes through.      *)
LEMMA updateStatusKeeps ==
  ASSUME TestInv, NEW next \in {"idle", "config"}, updateStatus(next)
  PROVE  TestInv'
<1>1. RuntimeTypeOK /\ JobsTypeOK BY DEF TestInv, TestTypeOK, JobsTypeOK
<1>2. active \in Keys /\ worker.snap \in 1..seen[active] /\ worker \in Worker
  BY PollingHoldsKey DEF updateStatus
<1>3. /\ revisions' \in [Keys -> Seq(Object)]
      /\ \A j \in Keys : Latest(j)' >= Latest(j)
      /\ \A j \in Keys : Latest(j)' \in Nat
      /\ faults' \subseteq Faults
  <2>1. \A j \in Keys : Latest(j) \in Nat BY <1>1, ObjectsTyped
  <2>2. CASE UNCHANGED revisions
    <3>1. faults' \subseteq Faults
      BY <1>1, DisturbCounts DEF updateStatus, WriteStatus, RuntimeTypeOK
    <3> QED BY <1>1, <2>1, <2>2, <3>1 DEF RuntimeTypeOK, Latest
  <2>3. CASE /\ worker.snap = Latest(active) /\ UNCHANGED faults
             /\ Store(active, [revisions[active][worker.snap] EXCEPT !.status = worker.verdict])
    <3>1. revisions[active][worker.snap] \in Object
      BY <1>1, <1>2, <2>3, ObjectsTyped DEF Obj
    <3>2. [revisions[active][worker.snap] EXCEPT !.status = worker.verdict] \in Object
      BY <1>2, <3>1 DEF Object, Worker
    <3>3. revisions' \in [Keys -> Seq(Object)] /\ \A j \in Keys : Latest(j)' >= Latest(j)
      BY <1>1, <1>2, <2>3, <3>2, StoreAppends
    <3>4. \A j \in Keys : Latest(j)' \in Nat BY <3>3, LenProperties DEF Latest
    <3> QED BY <1>1, <2>3, <3>3, <3>4 DEF RuntimeTypeOK
  <2> QED BY <2>2, <2>3 DEF updateStatus, WriteStatus
<1>4. UNCHANGED <<seen, notify, queue, jobVars>> BY DEF updateStatus
<1>5. JobsTypeOK' BY <1>1, <1>4 DEF JobsTypeOK, jobVars
<1>6. RuntimeTypeOK'
  <2>1. active' \in Keys \cup {NoKey} BY <1>2 DEF updateStatus
  <2>2. \A j \in Keys : seen[j] \in 1..Latest(j) /\ Latest(j) \in Nat BY <1>1, ObjectsTyped
  <2>3. \A j \in Keys : seen[j] \in 1..Latest(j)' BY <1>3, <2>2
  <2>4. \A j \in Keys : seen'[j] \in 1..Len(revisions'[j]) BY <1>4, <2>3 DEF Latest
  <2> QED BY <1>1, <1>3, <1>4, <2>1, <2>4 DEF RuntimeTypeOK
<1>7. CASE next = "idle"
  BY <1>5, <1>6, <1>7, IdleKeeps DEF updateStatus
<1>8. CASE next = "config"
  <2>1. UNCHANGED active /\ worker' = [worker EXCEPT !.pc = next]
    BY <1>8 DEF updateStatus
  <2>2. worker' \in Worker /\ worker'.pc = "config" /\ worker'.snap = worker.snap
    BY <1>2, <1>8, <2>1 DEF Worker
  <2>3. TestTypeOK'
    BY <1>2, <1>4, <1>5, <1>6, <2>1, <2>2, KeysAssumption DEF TestTypeOK, JobsTypeOK
  <2> QED BY <2>2, <2>3 DEF TestInv, SnapshotUndecided, VerdictMade
<1> QED BY <1>7, <1>8

-----------------------------------------------------------------------------
(* A controller implements the abstract test: of the steps that store a    *)
(* revision, a creation asks for the test, a deletion withdraws it, the    *)
(* status write decides it, an edit leaves it as it stands.                *)
Standings == [k \in Keys |-> Standing(k)]
OutsideStep == [Outside!Next]_Standings

LEMMA UnchangedOutside ==
  ASSUME UNCHANGED revisions
  PROVE  OutsideStep
BY DEF OutsideStep, Standings, Standing, Obj, Latest

LEMMA StoreOutside ==
  ASSUME RuntimeTypeOK, NEW k \in Keys, NEW object \in Object, Store(k, object),
         object.live =>
           \/ ~Obj(k).live /\ object.status = Blank
           \/ Obj(k).live /\ object.status = Obj(k).status
           \/ Obj(k).live /\ Obj(k).status = Blank
  PROVE  OutsideStep
<1>1. /\ Obj(k)' = object
      /\ \A j \in Keys \ {k} : Obj(j)' = Obj(j)
  BY StoreAppends DEF Obj, Latest
<1>2. Standings' = [Standings EXCEPT ![k] = Standing(k)']
  <2>1. \A j \in Keys \ {k} : Standing(j)' = Standing(j) BY <1>1 DEF Standing
  <2> DEFINE before[j \in Keys] == Standing(j)
             after[j \in Keys] == Standing(j)'
  <2>2. after = [before EXCEPT ![k] = Standing(k)']
    BY <2>1
  <2> QED BY <2>2 DEF Standings
<1>3. Standings[k] = Standing(k) BY DEF Standings
<1>4. CASE ~object.live
  BY <1>1, <1>2, <1>4 DEF OutsideStep, Outside!Next, Outside!Withdraws, Standings, Standing
<1>5. CASE object.live /\ ~Obj(k).live
  BY <1>1, <1>2, <1>3, <1>5 DEF OutsideStep, Outside!Next, Outside!Asks, Standings, Standing
<1>6. CASE object.live /\ Obj(k).live /\ object.status = Obj(k).status
  BY <1>1, <1>2, <1>3, <1>6 DEF OutsideStep, Standings, Standing
<1>7. CASE object.live /\ Obj(k).live /\ Obj(k).status = Blank /\ object.status # Blank
  <2>1. object.status \in Statuses \ {Blank} BY <1>7 DEF Object
  <2>2. Outside!Decides(k, object.status)
    BY <1>1, <1>2, <1>3, <1>7 DEF Outside!Decides, Standings, Standing
  <2> QED BY <2>1, <2>2 DEF OutsideStep, Outside!Next, Standings
<1> QED BY <1>4, <1>5, <1>6, <1>7

LEMMA UserOutside ==
  ASSUME RuntimeTypeOK, NEW k \in Keys, User(k)
  PROVE  OutsideStep
<1>1. Latest(k) \in Nat /\ Obj(k) \in Object BY ObjectsTyped
<1>2. ASSUME NEW spec \in Specs, UserCreates(k, spec) PROVE OutsideStep
  <2>1. [live |-> TRUE, uid |-> Latest(k) + 1, spec |-> spec, status |-> Blank] \in Object
    BY <1>1, StatusAssumption DEF Object
  <2> QED BY <1>2, <2>1, StoreOutside DEF UserCreates
<1>3. ASSUME NEW spec \in Specs, UserEdits(k, spec) PROVE OutsideStep
  <2>1. [Obj(k) EXCEPT !.spec = spec] \in Object BY <1>1 DEF Object
  <2>2. [Obj(k) EXCEPT !.spec = spec].status = Obj(k).status BY <1>1 DEF Object
  <2> QED BY <1>3, <2>1, <2>2, StoreOutside DEF UserEdits
<1>4. ASSUME UserDeletes(k) PROVE OutsideStep
  <2>1. [Obj(k) EXCEPT !.live = FALSE] \in Object BY <1>1 DEF Object
  <2>2. ~[Obj(k) EXCEPT !.live = FALSE].live BY <1>1 DEF Object
  <2> QED BY <1>4, <2>1, <2>2, StoreOutside DEF UserDeletes
<1> QED BY <1>2, <1>3, <1>4 DEF User

LEMMA updateStatusOutside ==
  ASSUME TestInv, NEW next, updateStatus(next)
  PROVE  OutsideStep
<1>1. RuntimeTypeOK /\ active \in Keys /\ worker \in Worker
  BY PollingHoldsKey DEF TestInv, TestTypeOK, updateStatus
<1>2. CASE UNCHANGED revisions BY <1>2, UnchangedOutside
<1>3. CASE /\ worker.snap = Latest(active)
           /\ Store(active, [revisions[active][worker.snap] EXCEPT !.status = worker.verdict])
  <2>1. revisions[active][worker.snap] \in Object
    BY <1>1, <1>3, ObjectsTyped DEF Obj
  <2>2. [revisions[active][worker.snap] EXCEPT !.status = worker.verdict] \in Object
    BY <1>1, <2>1 DEF Object, Worker
  <2>3. Obj(active).live /\ Obj(active).status = Blank
    BY <1>3 DEF Obj, TestInv, SnapshotUndecided, updateStatus
  <2> QED BY <1>1, <1>3, <2>2, <2>3, StoreOutside
<1> QED BY <1>2, <1>3 DEF updateStatus, WriteStatus

LEMMA EnvironmentOutside ==
  ASSUME RuntimeTypeOK, NEW k \in Keys, Environment(k)
  PROVE  OutsideStep
<1>1. CASE User(k) BY <1>1, UserOutside
<1>2. CASE Informer(k)
  BY <1>2, UnchangedOutside
  DEF Informer, InformerReceives, HandlerEnqueues, Resync, ResyncLags
<1>3. CASE Cluster(k) BY <1>3, UnchangedOutside DEF Cluster, runtimeVars
<1> QED BY <1>1, <1>2, <1>3 DEF Environment

LEMMA WorkerOutside ==
  ASSUME (\E k \in Keys : Begin(k)) \/ PollWaits \/ Crash
  PROVE  OutsideStep
<1>1. UNCHANGED revisions
  BY DEF Begin, BeginSkips, BeginFindsJob, BeginCreatesJob, BeginFails,
         PollWaits, PollMissing, PollFailed, PollUnfinished, PollLogsFail, PollPanics,
         Crash, Restart, RuntimeRestarts, runtimeVars
<1> QED BY <1>1, UnchangedOutside

LEMMA InitOutside == TestInit => Outside!Init
BY DEF TestInit, RuntimeInit, Outside!Init, Standing, Obj, Latest, Absent

-----------------------------------------------------------------------------
(* The revisions of a Job are only ever added to.                          *)
JobsGrow ==
  \A k \in Keys :
    /\ Len(jobs[k]) \in Nat /\ Len(jobs'[k]) \in Nat /\ Len(jobs[k]) <= Len(jobs'[k])
    /\ \A n \in 1..Len(jobs[k]) : jobs'[k][n] = jobs[k][n]

LEMMA StoreJobGrows ==
  ASSUME TestTypeOK, NEW k \in Keys, NEW job \in Job, StoreJob(k, job)
  PROVE  JobsGrow
<1>1. jobs \in [Keys -> Seq(Job)] BY DEF TestTypeOK
<1>2. /\ Len(jobs'[k]) = Len(jobs[k]) + 1
      /\ \A n \in 1..Len(jobs[k]) : jobs'[k][n] = jobs[k][n]
      /\ \A j \in Keys \ {k} : jobs'[j] = jobs[j]
  BY <1>1, AppendToOne DEF StoreJob
<1>3. \A j \in Keys : Len(jobs[j]) \in Nat BY JobsTyped
<1> QED BY <1>2, <1>3 DEF JobsGrow

LEMMA UnchangedGrow == ASSUME TestTypeOK, UNCHANGED jobs PROVE JobsGrow
BY JobsTyped DEF JobsGrow

LEMMA BeginGrows ==
  ASSUME TestTypeOK, NEW k \in Keys, Begin(k)
  PROVE  JobsGrow
<1>1. CASE StoreJob(k, newJobForCR(k, Cached(k))) BY <1>1, NewJobTyped, StoreJobGrows
<1> QED BY <1>1, UnchangedGrow
  DEF Begin, BeginSkips, BeginFindsJob, BeginCreatesJob, BeginFails, jobVars

LEMMA ClusterGrows ==
  ASSUME TestTypeOK, NEW k \in Keys, Cluster(k)
  PROVE  JobsGrow
<1>1. JobObj(k) \in Job BY JobsTyped
<1>2. ASSUME NEW log \in Logs, JobSucceeds(k, log) PROVE JobsGrow
  <2>1. log \in AnyLog BY DEF AnyLog
  <2>2. [JobObj(k) EXCEPT !.succeeded = 1, !.complete = TRUE, !.log = log] \in Job
    BY <1>1, <2>1, SucceededTyped
  <2> QED BY <1>2, <2>2, StoreJobGrows DEF JobSucceeds
<1>3. CASE JobFails(k)
  <2>1. [JobObj(k) EXCEPT !.failed = BackoffLimit + 1] \in Job BY <1>1 DEF Job, BackoffLimit
  <2> QED BY <1>3, <2>1, StoreJobGrows DEF JobFails
<1>4. CASE JobCompletes(k)
  <2>1. [JobObj(k) EXCEPT !.complete = TRUE] \in Job BY <1>1 DEF Job
  <2> QED BY <1>4, <2>1, StoreJobGrows DEF JobCompletes
<1>5. CASE JobRemoved(k)
  <2>1. [JobObj(k) EXCEPT !.live = FALSE] \in Job BY <1>1 DEF Job
  <2> QED BY <1>5, <2>1, StoreJobGrows DEF JobRemoved
<1>6. ASSUME NEW log \in Logs, JobSucceedsEarly(k, log) PROVE JobsGrow
  <2>1. log \in AnyLog BY DEF AnyLog
  <2>2. [JobObj(k) EXCEPT !.succeeded = 1, !.log = log] \in Job
    BY <1>1, <2>1, SucceededEarlyTyped
  <2> QED BY <1>6, <2>2, StoreJobGrows DEF JobSucceedsEarly
<1>7. CASE UNCHANGED jobs BY <1>7, UnchangedGrow
<1> QED BY <1>2, <1>3, <1>4, <1>5, <1>6, <1>7
  DEF Cluster, PodStarts, JobSeen, PodSeen, GarbageCollected, PodCollected, JobDeleted, PodLost

LEMMA WorkerGrows ==
  ASSUME TestTypeOK,
         (\E k \in Keys : Begin(k)) \/ PollWaits \/ Crash \/ UNCHANGED jobs
           \/ \E next \in {"idle", "config"} : updateStatus(next)
  PROVE  JobsGrow
<1>1. CASE \E k \in Keys : Begin(k) BY <1>1, BeginGrows
<1>2. CASE UNCHANGED jobs BY <1>2, UnchangedGrow
<1> QED BY <1>1, <1>2
  DEF PollWaits, PollMissing, PollFailed, PollUnfinished, PollLogsFail, PollPanics,
      Crash, Restart, updateStatus, jobVars

LEMMA EnvironmentGrows ==
  ASSUME TestTypeOK, NEW k \in Keys, Environment(k)
  PROVE  JobsGrow
BY ClusterGrows, UnchangedGrow DEF Environment, jobVars

-----------------------------------------------------------------------------
(* No test is lost, as long as a status write fails only by a conflict and *)
(* a Job is never seen to have succeeded without being complete.           *)
TimelyCompletion ==
  \A k \in Keys : \A n \in 1..Len(jobs[k]) : jobs[k][n].succeeded = 1 => jobs[k][n].complete

LEMMA StoreJobTimely ==
  ASSUME TestTypeOK, TimelyCompletion, NEW k \in Keys, NEW job \in Job, StoreJob(k, job),
         job.succeeded = 1 => job.complete
  PROVE  TimelyCompletion'
<1>1. jobs \in [Keys -> Seq(Job)] BY DEF TestTypeOK
<1>2. /\ Len(jobs'[k]) = Len(jobs[k]) + 1
      /\ jobs'[k][Len(jobs[k]) + 1] = job
      /\ \A n \in 1..Len(jobs[k]) : jobs'[k][n] = jobs[k][n]
      /\ \A j \in Keys \ {k} : jobs'[j] = jobs[j]
  BY <1>1, AppendToOne DEF StoreJob
<1>3. Len(jobs[k]) \in Nat BY JobsTyped
<1>4. \A n \in 1..Len(jobs'[k]) : n \in 1..Len(jobs[k]) \/ n = Len(jobs[k]) + 1
  BY <1>2, <1>3
<1>5. \A n \in 1..Len(jobs'[k]) : jobs'[k][n].succeeded = 1 => jobs'[k][n].complete
  BY <1>2, <1>4 DEF TimelyCompletion
<1> QED BY <1>2, <1>5 DEF TimelyCompletion

(* The Job in the cluster obeys it too.                                    *)
LEMMA JobObjTimely ==
  ASSUME TestTypeOK, TimelyCompletion, NEW k \in Keys
  PROVE  /\ JobObj(k).succeeded = 1 => JobObj(k).complete
         /\ CachedJob(k).succeeded = 1 => CachedJob(k).complete
<1>1. Len(jobs[k]) \in Nat /\ jobSeen[k] \in 1..Len(jobs[k]) BY JobsTyped
<1>2. Len(jobs[k]) \in 1..Len(jobs[k]) BY <1>1
<1> QED BY <1>1, <1>2 DEF TimelyCompletion, JobObj, CachedJob

LEMMA JobRemovedTimely ==
  ASSUME TestTypeOK, TimelyCompletion, NEW k \in Keys, JobRemoved(k)
  PROVE  TimelyCompletion'
<1>1. JobObj(k) \in Job /\ (JobObj(k).succeeded = 1 => JobObj(k).complete)
  BY JobsTyped, JobObjTimely
<1>2. [JobObj(k) EXCEPT !.live = FALSE] \in Job BY <1>1 DEF Job
<1>3. [JobObj(k) EXCEPT !.live = FALSE].succeeded = 1
        => [JobObj(k) EXCEPT !.live = FALSE].complete
  BY <1>1 DEF Job
<1> QED BY <1>2, <1>3, StoreJobTimely DEF JobRemoved

LEMMA ClusterTimely ==
  ASSUME TestTypeOK, TimelyCompletion, "latecondition" \notin faults',
         NEW k \in Keys, Cluster(k)
  PROVE  TimelyCompletion'
<1>1. JobObj(k) \in Job /\ (JobObj(k).succeeded = 1 => JobObj(k).complete)
  BY JobsTyped, JobObjTimely
<1>2. ASSUME NEW log \in Logs, JobSucceeds(k, log) PROVE TimelyCompletion'
  <2>1. log \in AnyLog BY DEF AnyLog
  <2>4. [JobObj(k) EXCEPT !.succeeded = 1, !.complete = TRUE, !.log = log] \in Job
    BY <1>1, <2>1, SucceededTyped
  <2>5. [JobObj(k) EXCEPT !.succeeded = 1, !.complete = TRUE, !.log = log].complete
    BY <1>1 DEF Job
  <2> QED BY <1>2, <2>4, <2>5, StoreJobTimely DEF JobSucceeds
<1>3. CASE JobFails(k)
  <2>1. [JobObj(k) EXCEPT !.failed = BackoffLimit + 1] \in Job
    BY <1>1 DEF Job, BackoffLimit
  <2>2. [JobObj(k) EXCEPT !.failed = BackoffLimit + 1].succeeded = 1
          => [JobObj(k) EXCEPT !.failed = BackoffLimit + 1].complete
    BY <1>1 DEF Job
  <2> QED BY <1>3, <2>1, <2>2, StoreJobTimely DEF JobFails
<1>4. CASE JobCompletes(k)
  <2>1. [JobObj(k) EXCEPT !.complete = TRUE] \in Job BY <1>1 DEF Job
  <2>2. [JobObj(k) EXCEPT !.complete = TRUE].complete BY <1>1 DEF Job
  <2> QED BY <1>4, <2>1, <2>2, StoreJobTimely DEF JobCompletes
<1>5. CASE GarbageCollected(k) BY <1>5, JobRemovedTimely DEF GarbageCollected
<1>6. CASE JobDeleted(k) BY <1>6, JobRemovedTimely DEF JobDeleted
<1>7. CASE UNCHANGED jobs BY <1>7 DEF TimelyCompletion
<1> QED
  BY <1>2, <1>3, <1>4, <1>5, <1>6, <1>7
  DEF Cluster, PodStarts, JobSeen, PodSeen, PodCollected, PodLost, JobSucceedsEarly, Disturb

LEMMA BeginTimely ==
  ASSUME TestTypeOK, TimelyCompletion, NEW k \in Keys, Begin(k)
  PROVE  TimelyCompletion'
<1>1. newJobForCR(k, Cached(k)) \in Job BY NewJobTyped
<1>2. newJobForCR(k, Cached(k)).succeeded # 1 BY DEF newJobForCR
<1>3. CASE UNCHANGED jobs BY <1>3 DEF TimelyCompletion
<1>4. CASE StoreJob(k, newJobForCR(k, Cached(k)))
  BY <1>1, <1>2, <1>4, StoreJobTimely
<1> QED BY <1>3, <1>4
  DEF Begin, BeginSkips, BeginFindsJob, BeginCreatesJob, BeginFails, jobVars

-----------------------------------------------------------------------------
(* One step of each actor keeps every undecided test remembered.           *)
LEMMA UserRemembers ==
  ASSUME TestInv, NoneForgotten, NEW k \in Keys, User(k), UNCHANGED <<jobVars, worker>>
  PROVE  NoneForgotten'
<1>1. RuntimeTypeOK BY DEF TestInv, TestTypeOK
<1>2. Latest(k) \in Nat /\ Obj(k) \in Object /\ seen[k] \in 1..Latest(k)
  BY <1>1, ObjectsTyped
<1>3. PICK object \in Object : Store(k, object)
  <2>1. \A spec \in Specs :
          [live |-> TRUE, uid |-> Latest(k) + 1, spec |-> spec, status |-> Blank] \in Object
    BY <1>2, StatusAssumption DEF Object
  <2>2. \A spec \in Specs : [Obj(k) EXCEPT !.spec = spec] \in Object
    BY <1>2 DEF Object
  <2>3. [Obj(k) EXCEPT !.live = FALSE] \in Object
    BY <1>2 DEF Object
  <2> QED BY <2>1, <2>2, <2>3, Zenon DEF User, UserCreates, UserEdits, UserDeletes
<1>4. /\ Latest(k)' = Latest(k) + 1
      /\ \A j \in Keys \ {k} : revisions'[j] = revisions[j]
  BY <1>1, <1>3, StoreAppends
<1>5. UNCHANGED <<seen, notify, queue, active, worker>>
  BY DEF User, UserCreates, UserEdits, UserDeletes
<1>6. seen'[k] < Latest(k)' BY <1>2, <1>4, <1>5
<1>7. \A j \in Keys \ {k} : Obj(j)' = Obj(j) /\ Latest(j)' = Latest(j)
  BY <1>4 DEF Obj, Latest
<1>8. \A j \in Keys \ {k} : Remembered(j) => Remembered(j)'
  BY <1>5, <1>7 DEF Remembered
<1>9. Remembered(k)' BY <1>6 DEF Remembered
<1> QED BY <1>7, <1>8, <1>9 DEF NoneForgotten

LEMMA InformerRemembers ==
  ASSUME TestInv, NoneForgotten, NEW k \in Keys, Informer(k), UNCHANGED <<jobVars, worker>>
  PROVE  NoneForgotten'
<1>1. UNCHANGED <<revisions, active, worker>>
  BY DEF Informer, InformerReceives, HandlerEnqueues, Resync, ResyncLags
<1>2. \A j \in Keys : Obj(j)' = Obj(j) /\ Latest(j)' = Latest(j)
  BY <1>1 DEF Obj, Latest
<1>3. queue \cup notify \subseteq queue' \cup notify'
  BY DEF Informer, InformerReceives, HandlerEnqueues, Resync, ResyncLags
<1>4. \A j \in Keys : seen'[j] = seen[j] \/ j \in notify'
  BY DEF Informer, InformerReceives, HandlerEnqueues, Resync, ResyncLags,
         TestInv, TestTypeOK, RuntimeTypeOK
<1>5. \A j \in Keys : Remembered(j) => Remembered(j)'
  BY <1>1, <1>2, <1>3, <1>4 DEF Remembered
<1> QED BY <1>2, <1>5 DEF NoneForgotten

LEMMA BeginRemembers ==
  ASSUME TestInv, NoneForgotten, NEW k \in Keys, Begin(k)
  PROVE  NoneForgotten'
<1>1. RuntimeTypeOK BY DEF TestInv, TestTypeOK
<1>2. Latest(k) \in Nat /\ seen[k] \in 1..Latest(k) BY <1>1, ObjectsTyped
<1>3. /\ UNCHANGED <<revisions, seen, notify>> /\ active = NoKey
      /\ \A j \in Keys \ {k} : j \in queue => j \in queue'
  BY DEF Begin, BeginSkips, BeginFindsJob, BeginCreatesJob, BeginFails, QueueGet
<1>4. \A j \in Keys : Obj(j)' = Obj(j) /\ Latest(j)' = Latest(j)
  BY <1>3 DEF Obj, Latest
<1>5. \A j \in Keys \ {k} : Remembered(j) => Remembered(j)'
  BY <1>3, <1>4, KeysAssumption DEF Remembered
<1>6. ASSUME Obj(k).live, Obj(k).status = Blank PROVE Remembered(k)'
  <2>1. CASE BeginSkips(k)
    <3>1. seen[k] # Latest(k) BY <1>6, <2>1 DEF BeginSkips, Cached, Obj
    <3> QED BY <1>2, <1>3, <1>4, <3>1 DEF Remembered
  <2>2. CASE BeginFindsJob(k) \/ BeginCreatesJob(k)
    <3>1. active' = k /\ worker'.pc = "poll" /\ worker'.snap = seen[k]
      BY <2>2 DEF BeginFindsJob, BeginCreatesJob, QueueGet, StartPolling, Idle
    <3> QED BY <1>2, <1>3, <1>4, <3>1 DEF Remembered
  <2>3. CASE BeginFails(k)
    BY <2>3 DEF BeginFails, Remembered
  <2> QED BY <2>1, <2>2, <2>3 DEF Begin
<1> QED BY <1>4, <1>5, <1>6 DEF NoneForgotten

(* A verdict changes nothing but the worker, which keeps its copy.         *)
LEMMA DecideRemembers ==
  ASSUME TestInv, NoneForgotten, Polls, NEW verdict, Decide(verdict), UNCHANGED runtimeVars
  PROVE  NoneForgotten'
<1>1. worker \in Worker BY PollingHoldsKey DEF Polls
<1>2. worker'.pc = "status" /\ worker'.snap = worker.snap
  BY <1>1 DEF Decide, Worker
<1>3. \A j \in Keys : Obj(j)' = Obj(j) /\ Latest(j)' = Latest(j)
  BY DEF Obj, Latest, runtimeVars
<1> QED BY <1>2, <1>3 DEF NoneForgotten, Remembered, runtimeVars

LEMMA RestartRemembers ==
  ASSUME Restart
  PROVE  NoneForgotten'
BY DEF Restart, RuntimeRestarts, NoneForgotten, Remembered, Obj, Latest

LEMMA PollWaitsRemembers ==
  ASSUME TestInv, TimelyCompletion, NoneForgotten, PollWaits
  PROVE  NoneForgotten'
<1>1. active \in Keys /\ worker \in Worker
  BY PollingHoldsKey
  DEF PollWaits, PollMissing, PollFailed, PollUnfinished, PollLogsFail, PollPanics, Polls
<1>2. CASE PollMissing
  <2>1. CASE worker.sec = 200
    BY <1>2, <2>1, DecideRemembers DEF PollMissing
  <2>2. CASE worker.sec # 200
    <3>1. worker'.pc = worker.pc /\ worker'.snap = worker.snap
      BY <1>1, <1>2, <2>2 DEF PollMissing, Worker
    <3>2. \A j \in Keys : Obj(j)' = Obj(j) /\ Latest(j)' = Latest(j)
      BY <1>2 DEF PollMissing, Obj, Latest, runtimeVars
    <3> QED BY <1>2, <3>1, <3>2 DEF PollMissing, NoneForgotten, Remembered, runtimeVars
  <2> QED BY <2>1, <2>2
<1>3. CASE PollFailed
  BY <1>3, DecideRemembers DEF PollFailed
<1>4. CASE PollUnfinished
  BY <1>1, <1>4, JobObjTimely DEF PollUnfinished, Succeeded, TestInv
<1>5. CASE PollLogsFail
  <2>1. UNCHANGED <<revisions, seen, notify>> /\ queue' = queue \cup {active}
    BY <1>5 DEF PollLogsFail, Requeue
  <2>2. \A j \in Keys : Obj(j)' = Obj(j) /\ Latest(j)' = Latest(j)
    BY <2>1 DEF Obj, Latest
  <2> QED BY <2>1, <2>2 DEF NoneForgotten, Remembered
<1>6. CASE PollPanics
  BY <1>6, RestartRemembers DEF PollPanics
<1> QED BY <1>2, <1>3, <1>4, <1>5, <1>6 DEF PollWaits

(* A refused status write was computed from an old copy: the newer         *)
(* revision is still on its way, or its notification is.                   *)
LEMMA updateStatusRemembers ==
  ASSUME TestInv, NoneForgotten, "statusfails" \notin faults', NEW next, updateStatus(next)
  PROVE  NoneForgotten'
<1>1. RuntimeTypeOK /\ active \in Keys /\ worker \in Worker
  BY PollingHoldsKey DEF TestInv, TestTypeOK, updateStatus
<1>2. UNCHANGED <<seen, notify, queue>> BY DEF updateStatus
<1>3. CASE worker.snap # Latest(active) /\ UNCHANGED revisions
  <2>1. \A j \in Keys : Obj(j)' = Obj(j) /\ Latest(j)' = Latest(j)
    BY <1>3 DEF Obj, Latest
  <2> QED BY <1>2, <1>3, <2>1 DEF NoneForgotten, Remembered
<1>4. ASSUME NEW k \in Keys, k = active, worker.snap = Latest(k),
             Store(k, [revisions[k][worker.snap] EXCEPT !.status = worker.verdict])
      PROVE  NoneForgotten'
  <2>1. revisions[k][worker.snap] \in Object BY <1>1, <1>4, ObjectsTyped DEF Obj
  <2>2. [revisions[k][worker.snap] EXCEPT !.status = worker.verdict] \in Object
    BY <1>1, <2>1 DEF Object, Worker
  <2>3. /\ Obj(k)' = [revisions[k][worker.snap] EXCEPT !.status = worker.verdict]
        /\ \A j \in Keys \ {k} : revisions'[j] = revisions[j]
    BY <1>1, <1>4, <2>2, StoreAppends
  <2>4. Obj(k)'.status # Blank
    BY <2>1, <2>3 DEF Object, TestInv, VerdictMade, updateStatus
  <2>5. \A j \in Keys \ {k} : Obj(j)' = Obj(j) /\ Latest(j)' = Latest(j)
    BY <2>3 DEF Obj, Latest
  <2>6. \A j \in Keys \ {k} : Remembered(j) => Remembered(j)'
    BY <1>2, <1>4, <2>5 DEF Remembered
  <2> QED BY <2>4, <2>5, <2>6 DEF NoneForgotten
<1> QED BY <1>1, <1>3, <1>4 DEF updateStatus, WriteStatus, Disturb

-----------------------------------------------------------------------------
(* One Job per test.  An incarnation's number is that of its first         *)
(* revision, a Job's that of its own; a Job launched for the incarnation   *)
(* that exists is still there, so that no other can be created beside it.  *)
Numbered ==
  \A k \in Keys :
    /\ \A n \in 1..Latest(k) : revisions[k][n].uid <= n
    /\ \A n \in 1..Len(jobs[k]) : jobs[k][n].id <= n /\ jobs[k][n].owner <= Latest(k)

LaunchStands ==
  \A k \in Keys : Obj(k).live =>
    \A n \in Launches(k, Obj(k).uid) :
      JobObj(k).live /\ JobObj(k).owner = Obj(k).uid /\ JobObj(k).id = n

LEMMA LaunchesOnce ==
  ASSUME TestTypeOK, LaunchStands
  PROVE  \A k \in Keys : Obj(k).live => Cardinality(Launches(k, Obj(k).uid)) <= 1
<1> SUFFICES ASSUME NEW k \in Keys, Obj(k).live
             PROVE  Cardinality(Launches(k, Obj(k).uid)) <= 1
  OBVIOUS
<1>1. CASE Launches(k, Obj(k).uid) = {} BY <1>1, FS_EmptySet
<1>2. CASE Launches(k, Obj(k).uid) # {}
  <2>1. Launches(k, Obj(k).uid) = {JobObj(k).id} BY <1>2 DEF LaunchStands
  <2>2. Cardinality({JobObj(k).id}) = 1 BY FS_Singleton
  <2> QED BY <2>1, <2>2
<1> QED BY <1>1, <1>2

(* A revision that stays within the incarnation, or starts a new one.      *)
LEMMA StoreLaunches ==
  ASSUME TestTypeOK, Numbered, NEW k \in Keys, NEW object \in Object, Store(k, object),
         UNCHANGED jobs,
         \/ object.uid = Latest(k) + 1
         \/ object.uid = Obj(k).uid /\ (object.live => Obj(k).live)
  PROVE  Numbered' /\ (LaunchStands => LaunchStands')
<1>1. RuntimeTypeOK BY DEF TestTypeOK
<1>2. /\ Latest(k)' = Latest(k) + 1 /\ Obj(k)' = object
      /\ \A n \in 1..Latest(k) : revisions'[k][n] = revisions[k][n]
      /\ \A j \in Keys \ {k} : revisions'[j] = revisions[j]
  BY <1>1, StoreAppends
<1>3. \A j \in Keys : Latest(j) \in Nat /\ Latest(j) >= 1 /\ Len(jobs[j]) \in Nat
  BY <1>1, ObjectsTyped, JobsTyped
<1>4. \A j \in Keys \ {k} : Latest(j)' = Latest(j) /\ Obj(j)' = Obj(j)
  BY <1>2 DEF Latest, Obj
<1>5. \A j \in Keys : \A n \in 1..Len(jobs[j]) : jobs[j][n].owner \in Nat
  <2> TAKE j \in Keys
  <2>1. jobs[j] \in Seq(Job) BY DEF TestTypeOK
  <2> TAKE n \in 1..Len(jobs[j])
  <2>2. jobs[j][n] \in Job BY <2>1, LenProperties
  <2> QED BY <2>2 DEF Job
<1>6. Latest(k) \in 1..Latest(k) /\ Obj(k).uid <= Latest(k) /\ Obj(k).uid \in Nat
  <2>1. Latest(k) \in 1..Latest(k) BY <1>3
  <2> QED BY <1>1, <2>1, ObjectsTyped DEF Numbered, Obj, Object
<1>7. \A n \in 1..Latest(k)' : revisions'[k][n].uid <= n
  <2> TAKE n \in 1..Latest(k)'
  <2>1. CASE n \in 1..Latest(k) BY <1>2, <2>1 DEF Numbered
  <2>2. CASE n = Latest(k) + 1
    <3>1. revisions'[k][n] = object BY <1>2, <2>2 DEF Obj, Latest
    <3> QED BY <1>3, <1>6, <2>2, <3>1
  <2> QED BY <1>2, <1>3, <2>1, <2>2
<1>8. Numbered'
  <2>1. \A n \in 1..Len(jobs[k]) : jobs[k][n].owner <= Latest(k)'
    BY <1>2, <1>3, <1>5 DEF Numbered
  <2> QED BY <1>2, <1>4, <1>7, <2>1 DEF Numbered
<1>9. ASSUME LaunchStands PROVE LaunchStands'
  <2>1. ASSUME object.live, NEW n \in Launches(k, object.uid)
        PROVE  JobObj(k).live /\ JobObj(k).owner = object.uid /\ JobObj(k).id = n
    <3>1. CASE object.uid = Latest(k) + 1
      <4>1. n \in 1..Len(jobs[k]) /\ jobs[k][n].owner = Latest(k) + 1
        BY <2>1, <3>1 DEF Launches
      <4> QED BY <1>3, <4>1 DEF Numbered
    <3>2. CASE object.uid = Obj(k).uid /\ Obj(k).live
      BY <1>9, <2>1, <3>2 DEF LaunchStands
    <3> QED BY <2>1, <3>1, <3>2
  <2>2. ASSUME NEW j \in Keys, Obj(j)'.live, NEW n \in Launches(j, Obj(j)'.uid)
        PROVE  JobObj(j).live /\ JobObj(j).owner = Obj(j)'.uid /\ JobObj(j).id = n
    BY <1>2, <1>4, <1>9, <2>1, <2>2 DEF LaunchStands
  <2> QED BY <2>2 DEF LaunchStands, Launches, JobObj
<1> QED BY <1>8, <1>9

(* A Job changes, or is removed when its test no longer exists.            *)
LEMMA JobChangeLaunches ==
  ASSUME TestTypeOK, Numbered, NEW k \in Keys, NEW job \in Job, StoreJob(k, job),
         UNCHANGED revisions, job.id = JobObj(k).id, job.owner = JobObj(k).owner,
         job.live = JobObj(k).live \/ ~(Obj(k).live /\ Obj(k).uid = JobObj(k).owner)
  PROVE  Numbered' /\ (LaunchStands => LaunchStands')
<1>1. jobs \in [Keys -> Seq(Job)] BY DEF TestTypeOK
<1>2. /\ Len(jobs'[k]) = Len(jobs[k]) + 1
      /\ jobs'[k][Len(jobs[k]) + 1] = job
      /\ \A n \in 1..Len(jobs[k]) : jobs'[k][n] = jobs[k][n]
      /\ \A j \in Keys \ {k} : jobs'[j] = jobs[j]
  BY <1>1, AppendToOne DEF StoreJob
<1>3. Len(jobs[k]) \in Nat /\ Len(jobs[k]) \in 1..Len(jobs[k])
  BY JobsTyped
<1>4. job.id \in Nat /\ job.id <= Len(jobs[k]) /\ job.owner <= Latest(k)
  <2>1. job.id \in Nat BY DEF Job
  <2> QED BY <1>3, <2>1 DEF Numbered, JobObj
<1>5. \A n \in 1..Len(jobs'[k]) : n \in 1..Len(jobs[k]) \/ n = Len(jobs[k]) + 1
  BY <1>2, <1>3
<1>6. \A j \in Keys : Obj(j)' = Obj(j) /\ Latest(j)' = Latest(j) BY DEF Obj, Latest
<1>7. Numbered'
  <2>1. \A n \in 1..Len(jobs'[k]) : jobs'[k][n].id <= n /\ jobs'[k][n].owner <= Latest(k)
    BY <1>2, <1>3, <1>4, <1>5 DEF Numbered
  <2> QED BY <1>2, <1>6, <2>1 DEF Numbered
<1>8. JobObj(k)' = job /\ \A j \in Keys \ {k} : JobObj(j)' = JobObj(j)
  BY <1>2 DEF JobObj
<1>9. \A uid : Launches(k, uid)' = Launches(k, uid)
  <2> TAKE uid
  <2>1. 1..Len(jobs[k]) \subseteq 1..Len(jobs'[k]) BY <1>2, <1>3
  <2>2. jobs'[k][Len(jobs[k]) + 1].id # Len(jobs[k]) + 1 BY <1>2, <1>3, <1>4
  <2> QED BY <1>2, <1>5, <2>1, <2>2 DEF Launches
<1>10. ASSUME LaunchStands PROVE LaunchStands'
  <2>1. ASSUME NEW j \in Keys, Obj(j).live, NEW n \in Launches(j, Obj(j).uid)'
        PROVE  (JobObj(j).live /\ JobObj(j).owner = Obj(j).uid /\ JobObj(j).id = n)'
    <3>1. CASE j = k BY <1>6, <1>8, <1>9, <1>10, <2>1, <3>1 DEF LaunchStands
    <3>2. CASE j # k
      <4>1. Launches(j, Obj(j).uid)' = Launches(j, Obj(j).uid)
        BY <1>2, <1>6, <3>2 DEF Launches
      <4> QED BY <1>6, <1>8, <1>10, <2>1, <3>2, <4>1 DEF LaunchStands
    <3> QED BY <3>1, <3>2
  <2> QED BY <1>6, <2>1 DEF LaunchStands
<1> QED BY <1>7, <1>10

(* A Job is created, for the incarnation the cache shows.                  *)
LEMMA NewJobLaunches ==
  ASSUME TestTypeOK, Numbered, NEW k \in Keys, ~JobObj(k).live,
         StoreJob(k, newJobForCR(k, Cached(k))), UNCHANGED revisions
  PROVE  Numbered' /\ (LaunchStands => LaunchStands')
<1> DEFINE job == newJobForCR(k, Cached(k))
<1>1. jobs \in [Keys -> Seq(Job)] BY DEF TestTypeOK
<1>2. job \in Job /\ job.live /\ job.id = Len(jobs[k]) + 1 /\ job.owner = Cached(k).uid
  BY NewJobTyped DEF newJobForCR
<1> HIDE DEF job
<1>3. /\ Len(jobs'[k]) = Len(jobs[k]) + 1
      /\ jobs'[k][Len(jobs[k]) + 1] = job
      /\ \A n \in 1..Len(jobs[k]) : jobs'[k][n] = jobs[k][n]
      /\ \A j \in Keys \ {k} : jobs'[j] = jobs[j]
  BY <1>1, <1>2, AppendToOne DEF StoreJob, job
<1>4. Len(jobs[k]) \in Nat BY JobsTyped
<1>5. \A n \in 1..Len(jobs'[k]) : n \in 1..Len(jobs[k]) \/ n = Len(jobs[k]) + 1
  BY <1>3, <1>4
<1>6. \A j \in Keys : Obj(j)' = Obj(j) /\ Latest(j)' = Latest(j) BY DEF Obj, Latest
<1>7. Cached(k).uid <= Latest(k)
  <2>1. /\ seen[k] \in 1..Latest(k) /\ Latest(k) \in Nat
        /\ Cached(k) \in Object /\ Cached(k).uid <= seen[k]
    BY ObjectsTyped DEF TestTypeOK, Numbered, Cached
  <2>2. Cached(k).uid \in Nat BY <2>1 DEF Object
  <2> QED BY <2>1, <2>2
<1>8. Numbered'
  <2>1. \A n \in 1..Len(jobs'[k]) : jobs'[k][n].id <= n /\ jobs'[k][n].owner <= Latest(k)
    BY <1>2, <1>3, <1>4, <1>5, <1>7 DEF Numbered
  <2> QED BY <1>3, <1>6, <2>1 DEF Numbered
<1>9. JobObj(k)' = job /\ \A j \in Keys \ {k} : JobObj(j)' = JobObj(j)
  BY <1>3 DEF JobObj
<1>10. ASSUME LaunchStands PROVE LaunchStands'
  <2>1. ASSUME Obj(k).live, NEW n \in Launches(k, Obj(k).uid)'
        PROVE  job.live /\ job.owner = Obj(k).uid /\ job.id = n
    <3>1. /\ n \in 1..Len(jobs'[k]) /\ jobs'[k][n].id = n
          /\ jobs'[k][n].owner = Obj(k).uid
      BY <1>6, <2>1 DEF Launches
    <3>2. n \notin 1..Len(jobs[k])
      <4> SUFFICES ASSUME n \in 1..Len(jobs[k]) PROVE FALSE OBVIOUS
      <4>1. n \in Launches(k, Obj(k).uid) BY <1>3, <3>1 DEF Launches
      <4> QED BY <1>10, <2>1, <4>1 DEF LaunchStands
    <3> QED BY <1>2, <1>3, <1>5, <3>1, <3>2
  <2>2. ASSUME NEW j \in Keys, Obj(j).live, NEW n \in Launches(j, Obj(j).uid)'
        PROVE  (JobObj(j).live /\ JobObj(j).owner = Obj(j).uid /\ JobObj(j).id = n)'
    <3>1. CASE j = k BY <1>6, <1>9, <2>1, <2>2, <3>1
    <3>2. CASE j # k
      <4>1. Launches(j, Obj(j).uid)' = Launches(j, Obj(j).uid)
        BY <1>3, <1>6, <3>2 DEF Launches
      <4> QED BY <1>6, <1>9, <1>10, <2>2, <3>2, <4>1 DEF LaunchStands
    <3> QED BY <3>1, <3>2
  <2> QED BY <1>6, <2>2 DEF LaunchStands
<1> QED BY <1>8, <1>10

LEMMA UnchangedLaunches ==
  ASSUME UNCHANGED <<revisions, jobs>>, Numbered
  PROVE  Numbered' /\ (LaunchStands => LaunchStands')
BY DEF Numbered, LaunchStands, Launches, JobObj, Obj, Latest

LEMMA UserLaunches ==
  ASSUME TestTypeOK, Numbered, NEW k \in Keys, User(k), UNCHANGED jobs
  PROVE  Numbered' /\ (LaunchStands => LaunchStands')
<1>1. Latest(k) \in Nat /\ Obj(k) \in Object BY ObjectsTyped DEF TestTypeOK
<1>2. ASSUME NEW spec \in Specs, UserCreates(k, spec)
      PROVE  Numbered' /\ (LaunchStands => LaunchStands')
  <2>1. [live |-> TRUE, uid |-> Latest(k) + 1, spec |-> spec, status |-> Blank] \in Object
    BY <1>1, StatusAssumption DEF Object
  <2> QED BY <1>2, <2>1, StoreLaunches DEF UserCreates
<1>3. ASSUME NEW spec \in Specs, UserEdits(k, spec)
      PROVE  Numbered' /\ (LaunchStands => LaunchStands')
  <2>1. /\ [Obj(k) EXCEPT !.spec = spec] \in Object
        /\ [Obj(k) EXCEPT !.spec = spec].uid = Obj(k).uid
    BY <1>1 DEF Object
  <2> QED BY <1>3, <2>1, StoreLaunches DEF UserEdits
<1>4. CASE UserDeletes(k)
  <2>1. /\ [Obj(k) EXCEPT !.live = FALSE] \in Object
        /\ [Obj(k) EXCEPT !.live = FALSE].uid = Obj(k).uid
    BY <1>1 DEF Object
  <2> QED BY <1>4, <2>1, StoreLaunches DEF UserDeletes
<1> QED BY <1>2, <1>3, <1>4 DEF User

LEMMA ClusterLaunches ==
  ASSUME TestTypeOK, Numbered, NEW k \in Keys, Cluster(k), "jobdelete" \notin faults'
  PROVE  Numbered' /\ (LaunchStands => LaunchStands')
<1>1. JobObj(k) \in Job /\ UNCHANGED revisions BY JobsTyped DEF Cluster, runtimeVars
<1>2. ASSUME NEW log \in Logs, JobSucceeds(k, log) \/ JobSucceedsEarly(k, log)
      PROVE  Numbered' /\ (LaunchStands => LaunchStands')
  <2>1. PICK job \in Job : /\ StoreJob(k, job) /\ job.id = JobObj(k).id
                           /\ job.owner = JobObj(k).owner /\ job.live = JobObj(k).live
    <3>1. log \in AnyLog BY DEF AnyLog
    <3>2. CASE JobSucceeds(k, log)
      BY <1>1, <3>1, <3>2, SucceededTyped DEF JobSucceeds, Job
    <3>3. CASE JobSucceedsEarly(k, log)
      BY <1>1, <3>1, <3>3, SucceededEarlyTyped DEF JobSucceedsEarly, Job
    <3> QED BY <1>2, <3>2, <3>3
  <2> QED BY <1>1, <2>1, JobChangeLaunches
<1>3. CASE JobFails(k)
  <2>1. /\ [JobObj(k) EXCEPT !.failed = BackoffLimit + 1] \in Job
        /\ [JobObj(k) EXCEPT !.failed = BackoffLimit + 1].id = JobObj(k).id
        /\ [JobObj(k) EXCEPT !.failed = BackoffLimit + 1].owner = JobObj(k).owner
        /\ [JobObj(k) EXCEPT !.failed = BackoffLimit + 1].live = JobObj(k).live
    BY <1>1 DEF Job, BackoffLimit
  <2> QED BY <1>1, <1>3, <2>1, JobChangeLaunches DEF JobFails
<1>4. CASE JobCompletes(k)
  <2>1. /\ [JobObj(k) EXCEPT !.complete = TRUE] \in Job
        /\ [JobObj(k) EXCEPT !.complete = TRUE].id = JobObj(k).id
        /\ [JobObj(k) EXCEPT !.complete = TRUE].owner = JobObj(k).owner
        /\ [JobObj(k) EXCEPT !.complete = TRUE].live = JobObj(k).live
    BY <1>1 DEF Job
  <2> QED BY <1>1, <1>4, <2>1, JobChangeLaunches DEF JobCompletes
<1>5. CASE GarbageCollected(k)
  <2>1. /\ [JobObj(k) EXCEPT !.live = FALSE] \in Job
        /\ [JobObj(k) EXCEPT !.live = FALSE].id = JobObj(k).id
        /\ [JobObj(k) EXCEPT !.live = FALSE].owner = JobObj(k).owner
    BY <1>1 DEF Job
  <2> QED BY <1>1, <1>5, <2>1, JobChangeLaunches DEF GarbageCollected, JobRemoved
<1>6. CASE UNCHANGED jobs BY <1>1, <1>6, UnchangedLaunches
<1>7. ~JobDeleted(k) BY DEF JobDeleted, Disturb
<1> QED
  BY <1>2, <1>3, <1>4, <1>5, <1>6, <1>7
  DEF Cluster, PodStarts, JobSeen, PodSeen, PodCollected, PodLost

LEMMA updateStatusLaunches ==
  ASSUME TestInv, Numbered, NEW next, updateStatus(next)
  PROVE  Numbered' /\ (LaunchStands => LaunchStands')
<1>1. TestTypeOK /\ active \in Keys /\ worker \in Worker
  BY PollingHoldsKey DEF TestInv, updateStatus
<1>2. UNCHANGED jobs BY DEF updateStatus, jobVars
<1>3. CASE UNCHANGED revisions BY <1>2, <1>3, UnchangedLaunches
<1>4. ASSUME NEW k \in Keys, Store(k, [Obj(k) EXCEPT !.status = worker.verdict])
      PROVE  Numbered' /\ (LaunchStands => LaunchStands')
  <2>1. Obj(k) \in Object BY <1>1, ObjectsTyped DEF TestTypeOK
  <2>2. /\ [Obj(k) EXCEPT !.status = worker.verdict] \in Object
        /\ [Obj(k) EXCEPT !.status = worker.verdict].uid = Obj(k).uid
        /\ [Obj(k) EXCEPT !.status = worker.verdict].live = Obj(k).live
    BY <1>1, <2>1 DEF Object, Worker
  <2> QED BY <1>1, <1>2, <1>4, <2>2, StoreLaunches
<1> QED BY <1>1, <1>3, <1>4 DEF updateStatus, WriteStatus, Obj

LEMMA BeginLaunches ==
  ASSUME TestTypeOK, Numbered, NEW k \in Keys, Begin(k)
  PROVE  Numbered' /\ (LaunchStands => LaunchStands')
<1>1. UNCHANGED revisions
  BY DEF Begin, BeginSkips, BeginFindsJob, BeginCreatesJob, BeginFails
<1>2. CASE ~JobObj(k).live /\ StoreJob(k, newJobForCR(k, Cached(k)))
  BY <1>1, <1>2, NewJobLaunches
<1>3. CASE UNCHANGED jobs BY <1>1, <1>3, UnchangedLaunches
<1> QED BY <1>2, <1>3
  DEF Begin, BeginSkips, BeginFindsJob, BeginCreatesJob, BeginFails, jobVars

LEMMA InitLaunches == TestInit => Numbered /\ LaunchStands
BY DEF TestInit, RuntimeInit, Numbered, LaunchStands, Obj, Latest, Absent, NoJob

-----------------------------------------------------------------------------
(* Whose log is read.  A Job's id is the number of the revision in which   *)
(* it was launched, and a pod bears the id of the Job it was made for.     *)
Sane(job) ==
  /\ job.complete => job.succeeded = 1
  /\ job.succeeded = 0 => job.log = NoLog
Ends == \A k \in Keys : \A n \in 1..Len(jobs[k]) : Sane(jobs[k][n])

Launched(k, id) == id \in 1..Len(jobs[k]) /\ jobs[k][id].live /\ jobs[k][id].id = id
AllLaunched ==
  \A k \in Keys :
    /\ \A n \in 1..Len(jobs[k]) : jobs[k][n].live => Launched(k, jobs[k][n].id)
    /\ \A id \in pods[k] : Launched(k, id)

(* A Job that exists belongs to the one test of its name.                  *)
JobsOwned ==
  \A k \in Keys : \A n \in 1..Len(jobs[k]) :
    jobs[k][n].live => BelongsTo(k, jobs[k][n].owner)

(* How the cluster changes a Job.                                          *)
Follows(job, next) ==
  /\ next.id = job.id /\ next.owner = job.owner /\ next.spec = job.spec
  /\ next.live => job.live
  /\ job.complete => next.complete /\ next.log = job.log
  /\ job.log # NoLog => next.log = job.log

(* If no Job is deleted by hand: it stays as long as its test does.        *)
JobStays ==
  \A k \in Keys : Obj(k).live =>
    \A j \in 1..Len(jobs[k]) : \A m \in 1..j :
      jobs[k][m].live => jobs[k][j].live /\ Follows(jobs[k][m], jobs[k][j])

JobsKept ==
  /\ Ends /\ AllLaunched /\ worker.sec \in {10, 30}
  /\ Without({"recreate"}) => OneIncarnation /\ JobsOwned
  /\ JobsToldApart => JobStays

LEMMA StoreJobShape ==
  ASSUME TestTypeOK, NEW k \in Keys, NEW job \in Job, StoreJob(k, job)
  PROVE  /\ Len(jobs[k]) \in Nat /\ Len(jobs[k]) >= 1 /\ Len(jobs'[k]) = Len(jobs[k]) + 1
         /\ JobObj(k)' = job /\ jobs'[k][Len(jobs[k]) + 1] = job
         /\ \A n \in 1..Len(jobs[k]) : jobs'[k][n] = jobs[k][n]
         /\ \A n \in 1..Len(jobs'[k]) : n \in 1..Len(jobs[k]) \/ n = Len(jobs[k]) + 1
         /\ \A j \in Keys \ {k} : jobs'[j] = jobs[j]
<1>1. jobs \in [Keys -> Seq(Job)] BY DEF TestTypeOK
<1>2. /\ Len(jobs'[k]) = Len(jobs[k]) + 1
      /\ jobs'[k][Len(jobs[k]) + 1] = job
      /\ \A n \in 1..Len(jobs[k]) : jobs'[k][n] = jobs[k][n]
      /\ \A j \in Keys \ {k} : jobs'[j] = jobs[j]
  BY <1>1, AppendToOne DEF StoreJob
<1>3. Len(jobs[k]) \in Nat /\ Len(jobs[k]) >= 1 BY JobsTyped
<1>4. JobObj(k)' = job BY <1>2 DEF JobObj
<1>5. \A n \in 1..Len(jobs'[k]) : n \in 1..Len(jobs[k]) \/ n = Len(jobs[k]) + 1 BY <1>2, <1>3
<1> QED BY <1>2, <1>3, <1>4, <1>5

LEMMA JobStoredEnds ==
  ASSUME TestTypeOK, Ends, NEW k \in Keys, NEW job \in Job, StoreJob(k, job), Sane(job)
  PROVE  Ends'
<1>1. /\ jobs'[k][Len(jobs[k]) + 1] = job
      /\ \A n \in 1..Len(jobs[k]) : jobs'[k][n] = jobs[k][n]
      /\ \A n \in 1..Len(jobs'[k]) : n \in 1..Len(jobs[k]) \/ n = Len(jobs[k]) + 1
      /\ \A j \in Keys \ {k} : jobs'[j] = jobs[j]
  BY StoreJobShape
<1>2. \A n \in 1..Len(jobs'[k]) : Sane(jobs'[k][n]) BY <1>1 DEF Ends
<1> QED BY <1>1, <1>2 DEF Ends

(* A launch stays where it is; a pod is made for a Job that exists.        *)
LEMMA LaunchedStays ==
  ASSUME JobsGrow, NEW k \in Keys, NEW id, Launched(k, id)
  PROVE  Launched(k, id)'
<1>1. id \in 1..Len(jobs'[k]) BY DEF JobsGrow, Launched
<1> QED BY <1>1 DEF JobsGrow, Launched

LEMMA JobObjLaunched ==
  ASSUME TestTypeOK, AllLaunched, NEW k \in Keys, JobObj(k).live
  PROVE  Launched(k, JobObj(k).id)
<1>1. Len(jobs[k]) \in 1..Len(jobs[k]) BY JobsTyped
<1> QED BY <1>1 DEF AllLaunched, JobObj

LEMMA JobStoredLaunched ==
  ASSUME TestTypeOK, AllLaunched, NEW k \in Keys, NEW job \in Job, StoreJob(k, job),
         UNCHANGED pods,
         \/ job.id = JobObj(k).id /\ (job.live => JobObj(k).live)
         \/ job.id = Len(jobs[k]) + 1 /\ job.live
  PROVE  AllLaunched'
<1>1. JobsGrow BY StoreJobGrows
<1>2. /\ Len(jobs[k]) \in Nat /\ Len(jobs'[k]) = Len(jobs[k]) + 1
      /\ jobs'[k][Len(jobs[k]) + 1] = job
      /\ \A n \in 1..Len(jobs'[k]) : n \in 1..Len(jobs[k]) \/ n = Len(jobs[k]) + 1
      /\ \A n \in 1..Len(jobs[k]) : jobs'[k][n] = jobs[k][n]
      /\ \A j \in Keys \ {k} : jobs'[j] = jobs[j]
  BY StoreJobShape
<1>3. job.live => Launched(k, job.id)'
  <2>1. CASE job.id = Len(jobs[k]) + 1
    <3>1. Len(jobs[k]) + 1 \in 1..Len(jobs'[k]) BY <1>2
    <3> QED BY <1>2, <2>1, <3>1 DEF Launched
  <2>2. ASSUME NEW id, id = job.id, JobObj(k).live, job.id = JobObj(k).id
        PROVE  Launched(k, id)'
    <3>1. Launched(k, id) BY <2>2, JobObjLaunched
    <3> QED BY <1>1, <3>1, LaunchedStays
  <2>3. CASE job.id = JobObj(k).id /\ JobObj(k).live
    <3> SUFFICES ASSUME NEW id, id = job.id PROVE Launched(k, id)' BY DEF Launched
    <3> QED BY <2>2, <2>3
  <2> QED BY <2>1, <2>3
<1>4. ASSUME NEW x \in Keys, NEW id, Launched(x, id) PROVE Launched(x, id)'
  BY <1>1, <1>4, LaunchedStays
<1>5. ASSUME NEW x \in Keys, NEW n \in 1..Len(jobs'[x]), jobs'[x][n].live,
             NEW id, id = jobs'[x][n].id
      PROVE  Launched(x, id)'
  <2>1. CASE x # k \/ n \in 1..Len(jobs[k])
    <3>1. n \in 1..Len(jobs[x]) /\ jobs'[x][n] = jobs[x][n] BY <1>2, <1>5, <2>1
    <3> QED BY <1>4, <1>5, <3>1 DEF AllLaunched
  <2>2. CASE x = k /\ n = Len(jobs[k]) + 1 BY <1>2, <1>3, <1>5, <2>2 DEF Launched
  <2> QED BY <1>2, <1>5, <2>1, <2>2
<1>6. ASSUME NEW x \in Keys, NEW id \in pods'[x] PROVE Launched(x, id)'
  BY <1>4 DEF AllLaunched
<1> QED BY <1>5, <1>6 DEF AllLaunched, Launched

LEMMA PodsLaunched ==
  ASSUME TestTypeOK, AllLaunched, UNCHANGED jobs,
         \A k \in Keys : \A id \in pods'[k] :
           id \in pods[k] \/ (JobObj(k).live /\ id = JobObj(k).id)
  PROVE  AllLaunched'
<1>1. \A k \in Keys : \A id : Launched(k, id)' <=> Launched(k, id) BY DEF Launched
<1>2. \A k \in Keys : \A id \in pods'[k] : Launched(k, id)
  BY JobObjLaunched DEF AllLaunched
<1>3. \A k \in Keys : \A n \in 1..Len(jobs[k]) : jobs[k][n].live => Launched(k, jobs[k][n].id)
  BY DEF AllLaunched
<1> QED BY <1>1, <1>2, <1>3 DEF AllLaunched, Launched

LEMMA JobStoredBelongs ==
  ASSUME TestTypeOK, JobsOwned, NEW k \in Keys, NEW job \in Job, StoreJob(k, job),
         UNCHANGED revisions, job.live => BelongsTo(k, job.owner)
  PROVE  JobsOwned'
<1>1. /\ jobs'[k][Len(jobs[k]) + 1] = job
      /\ \A n \in 1..Len(jobs[k]) : jobs'[k][n] = jobs[k][n]
      /\ \A n \in 1..Len(jobs'[k]) : n \in 1..Len(jobs[k]) \/ n = Len(jobs[k]) + 1
      /\ \A j \in Keys \ {k} : jobs'[j] = jobs[j]
  BY StoreJobShape
<1>2. \A j, uid : BelongsTo(j, uid)' <=> BelongsTo(j, uid) BY UnchangedIncarnation
<1> SUFFICES ASSUME NEW x \in Keys, NEW n \in 1..Len(jobs'[x]), jobs'[x][n].live
             PROVE  BelongsTo(x, jobs'[x][n].owner)
  BY <1>2 DEF JobsOwned
<1>3. CASE x # k BY <1>1, <1>3 DEF JobsOwned
<1>4. CASE x = k /\ n \in 1..Len(jobs[k]) BY <1>1, <1>4 DEF JobsOwned
<1>5. CASE x = k /\ n = Len(jobs[k]) + 1 BY <1>1, <1>5
<1> QED BY <1>1, <1>3, <1>4, <1>5

LEMMA JobStoredStays ==
  ASSUME TestTypeOK, JobStays, NEW k \in Keys, NEW job \in Job, StoreJob(k, job),
         UNCHANGED revisions,
         Obj(k).live /\ JobObj(k).live => job.live /\ Follows(JobObj(k), job)
  PROVE  JobStays'
<1> SUFFICES ASSUME NEW n, n = Len(jobs[k]) PROVE JobStays' OBVIOUS
<1>1. /\ n \in Nat /\ n >= 1 /\ Len(jobs'[k]) = n + 1 /\ jobs'[k][n + 1] = job
      /\ \A i \in 1..n : jobs'[k][i] = jobs[k][i]
      /\ \A i \in 1..(n + 1) : i \in 1..n \/ i = n + 1
      /\ \A j \in Keys \ {k} : jobs'[j] = jobs[j]
  BY StoreJobShape
<1>2. JobObj(k) = jobs[k][n] /\ \A x : Obj(x)' = Obj(x) BY DEF JobObj, Obj, Latest
<1> SUFFICES ASSUME NEW x \in Keys, Obj(x).live, NEW j \in 1..Len(jobs'[x]), NEW m \in 1..j,
                    jobs'[x][m].live
             PROVE  jobs'[x][j].live /\ Follows(jobs'[x][m], jobs'[x][j])
  BY <1>2 DEF JobStays, Follows
<1>3. CASE x # k BY <1>1, <1>3 DEF JobStays
<1>4. CASE x = k /\ j \in 1..n
  <2>1. m \in 1..n BY <1>1, <1>4
  <2> QED BY <1>1, <1>4, <2>1 DEF JobStays
<1>5. CASE x = k /\ j = n + 1
  <2>1. CASE m = n + 1 BY <1>5, <2>1 DEF Follows
  <2>2. CASE m \in 1..n
    <3>1. n \in 1..n /\ m \in 1..n /\ jobs[k][m].live BY <1>1, <1>5, <2>2
    <3>2. jobs[k][n].live /\ Follows(jobs[k][m], jobs[k][n]) BY <1>5, <3>1 DEF JobStays
    <3>3. job.live /\ Follows(jobs[k][n], job) BY <1>2, <1>5, <3>2
    <3>4. Follows(jobs[k][m], job) BY <3>2, <3>3 DEF Follows
    <3> QED BY <1>1, <1>5, <3>1, <3>3, <3>4
  <2> QED BY <1>1, <1>5, <2>1, <2>2
<1> QED BY <1>1, <1>3, <1>4, <1>5

-----------------------------------------------------------------------------
(* Each step of what the controllers share keeps it.                       *)
LEMMA QuietJobs ==
  ASSUME TestInv, JobsKept, UNCHANGED <<jobs, pods>>, faults \subseteq faults',
         worker'.sec \in {10, 30},
         "recreate" \notin faults' =>
           \/ UNCHANGED revisions
           \/ \E k \in Keys : \E object \in Object :
                /\ Store(k, object)
                /\ object.live => Latest(k) = 1 \/ (Obj(k).live /\ object.uid = Obj(k).uid)
  PROVE  JobsKept'
<1>1. TestTypeOK /\ RuntimeTypeOK BY DEF TestInv, TestTypeOK
<1>2. Ends' BY DEF JobsKept, Ends
<1>3. AllLaunched' BY <1>1, PodsLaunched DEF JobsKept
<1>4. ASSUME Without({"recreate"})'
      PROVE  OneIncarnation' /\ JobsOwned' /\ (JobStays => JobStays')
  <2>1. OneIncarnation /\ JobsOwned /\ "recreate" \notin faults' BY <1>4 DEF JobsKept, Without
  <2>2. CASE UNCHANGED revisions
    <3>1. JobStays => JobStays' BY <2>2 DEF JobStays, Obj, Latest, Follows
    <3> QED BY <2>1, <2>2, <3>1, UnchangedIncarnation DEF JobsOwned
  <2>3. ASSUME NEW k \in Keys, NEW object \in Object, Store(k, object),
               object.live => Latest(k) = 1 \/ (Obj(k).live /\ object.uid = Obj(k).uid)
        PROVE  OneIncarnation' /\ JobsOwned' /\ (JobStays => JobStays')
    <3>1. /\ OneIncarnation'
          /\ \A j \in Keys : \A uid : BelongsTo(j, uid) => BelongsTo(j, uid)'
      BY <1>1, <2>1, <2>3, StoredIncarnation
    <3>2. JobsOwned'
      <4> SUFFICES ASSUME NEW x \in Keys, NEW n \in 1..Len(jobs[x]), jobs[x][n].live,
                          NEW uid, uid = jobs[x][n].owner
                   PROVE  BelongsTo(x, uid)'
        BY DEF JobsOwned
      <4> QED BY <2>1, <3>1 DEF JobsOwned
    <3>3. Obj(k)' = object /\ \A j \in Keys \ {k} : Obj(j)' = Obj(j)
      BY <1>1, <2>3, StoreAppends DEF Obj, Latest
    <3>4. Latest(k) = 1 => \A n \in 1..Len(jobs[k]) : ~jobs[k][n].live
      BY <2>1 DEF JobsOwned, BelongsTo
    <3>5. ASSUME JobStays, NEW x \in Keys, Obj(x)'.live, NEW j \in 1..Len(jobs[x]), NEW m \in 1..j,
                 jobs[x][m].live
          PROVE  jobs[x][j].live /\ Follows(jobs[x][m], jobs[x][j])
      <4>1. m \in 1..Len(jobs[x]) BY <1>1, JobsTyped
      <4>2. Obj(x).live BY <2>3, <3>3, <3>4, <3>5, <4>1
      <4> QED BY <3>5, <4>2 DEF JobStays
    <3>6. JobStays => JobStays' BY <3>5 DEF JobStays, Follows
    <3> QED BY <3>1, <3>2, <3>6
  <2> QED BY <2>1, <2>2, <2>3
<1>5. JobsToldApart' => JobsToldApart /\ Without({"recreate"})' BY DEF JobsToldApart, Without
<1> QED BY <1>2, <1>3, <1>4, <1>5 DEF JobsKept

(* What the cluster stores of a Job.                                       *)
LEMMA JobRemovedFollows ==
  ASSUME TestTypeOK, Ends, NEW k \in Keys, JobRemoved(k)
  PROVE  \E job \in Job :
           /\ StoreJob(k, job) /\ Sane(job) /\ Follows(JobObj(k), job)
           /\ UNCHANGED <<jobSeen, pods>>
<1>1. JobObj(k) \in Job /\ Len(jobs[k]) \in 1..Len(jobs[k]) BY JobsTyped
<1>2. Sane(JobObj(k)) BY <1>1 DEF Ends, JobObj
<1>3. LET job == [JobObj(k) EXCEPT !.live = FALSE]
      IN job \in Job /\ Sane(job) /\ Follows(JobObj(k), job)
  BY <1>1, <1>2 DEF Job, Sane, Follows
<1>4. StoreJob(k, [JobObj(k) EXCEPT !.live = FALSE]) /\ UNCHANGED <<jobSeen, pods>>
  BY DEF JobRemoved
<1> QED BY <1>3, <1>4

LEMMA ClusterStores ==
  ASSUME TestTypeOK, Ends, NEW k \in Keys, Cluster(k), ~UNCHANGED jobs
  PROVE  \E job \in Job :
           /\ StoreJob(k, job) /\ Sane(job) /\ Follows(JobObj(k), job)
           /\ UNCHANGED <<jobSeen, pods>>
           /\ \/ job.live \/ "jobdelete" \in faults'
              \/ ~(Obj(k).live /\ Obj(k).uid = JobObj(k).owner)
<1>1. JobObj(k) \in Job /\ Len(jobs[k]) \in 1..Len(jobs[k]) BY JobsTyped
<1>2. Sane(JobObj(k)) BY <1>1 DEF Ends, JobObj
<1>3. ASSUME NEW log \in Logs, JobSucceeds(k, log)
      PROVE  \E job \in Job : /\ StoreJob(k, job) /\ Sane(job) /\ Follows(JobObj(k), job)
                              /\ job.live /\ UNCHANGED <<jobSeen, pods>>
  <2>1. log \in AnyLog BY DEF AnyLog
  <2>2. /\ StoreJob(k, [JobObj(k) EXCEPT !.succeeded = 1, !.complete = TRUE, !.log = log])
        /\ Running(JobObj(k)) /\ UNCHANGED <<jobSeen, pods>>
    BY <1>3 DEF JobSucceeds
  <2>3. PICK next : next = [JobObj(k) EXCEPT !.succeeded = 1, !.complete = TRUE, !.log = log]
    OBVIOUS
  <2>4. /\ next \in Job /\ next.live = JobObj(k).live /\ next.owner = JobObj(k).owner
        /\ next.id = JobObj(k).id /\ next.spec = JobObj(k).spec
        /\ next.succeeded = 1 /\ next.complete
    BY <1>1, <2>1, <2>3, SucceededTyped DEF Job
  <2>5. JobObj(k).log = NoLog /\ ~JobObj(k).complete BY <1>2, <2>2 DEF Running, Sane
  <2>6. Sane(next) /\ Follows(JobObj(k), next) /\ next.live
    BY <1>1, <1>2, <2>2, <2>4, <2>5 DEF Running, Job, Sane, Follows
  <2> QED BY <2>2, <2>3, <2>4, <2>6
<1>4. ASSUME NEW log \in Logs, JobSucceedsEarly(k, log)
      PROVE  \E job \in Job : /\ StoreJob(k, job) /\ Sane(job) /\ Follows(JobObj(k), job)
                              /\ job.live /\ UNCHANGED <<jobSeen, pods>>
  <2>1. log \in AnyLog BY DEF AnyLog
  <2>2. /\ StoreJob(k, [JobObj(k) EXCEPT !.succeeded = 1, !.log = log])
        /\ Running(JobObj(k)) /\ UNCHANGED <<jobSeen, pods>>
    BY <1>4 DEF JobSucceedsEarly
  <2>3. PICK next : next = [JobObj(k) EXCEPT !.succeeded = 1, !.log = log]
    OBVIOUS
  <2>4. /\ next \in Job /\ next.live = JobObj(k).live /\ next.owner = JobObj(k).owner
        /\ next.id = JobObj(k).id /\ next.spec = JobObj(k).spec
        /\ next.succeeded = 1 /\ next.complete = JobObj(k).complete
    BY <1>1, <2>1, <2>3, SucceededEarlyTyped DEF Job
  <2>5. JobObj(k).log = NoLog /\ ~JobObj(k).complete BY <1>2, <2>2 DEF Running, Sane
  <2>6. Sane(next) /\ Follows(JobObj(k), next) /\ next.live
    BY <1>1, <1>2, <2>2, <2>4, <2>5 DEF Running, Job, Sane, Follows
  <2> QED BY <2>2, <2>3, <2>4, <2>6
<1>5. CASE JobFails(k)
  <2>1. LET job == [JobObj(k) EXCEPT !.failed = BackoffLimit + 1]
        IN job \in Job /\ Sane(job) /\ Follows(JobObj(k), job) /\ job.live
    BY <1>1, <1>2, <1>5 DEF JobFails, Running, Job, BackoffLimit, Sane, Follows
  <2>2. StoreJob(k, [JobObj(k) EXCEPT !.failed = BackoffLimit + 1]) /\ UNCHANGED <<jobSeen, pods>>
    BY <1>5 DEF JobFails
  <2> QED BY <2>1, <2>2
<1>6. CASE JobCompletes(k)
  <2>1. LET job == [JobObj(k) EXCEPT !.complete = TRUE]
        IN job \in Job /\ Sane(job) /\ Follows(JobObj(k), job) /\ job.live
    BY <1>1, <1>2, <1>6 DEF JobCompletes, Job, Sane, Follows
  <2>2. StoreJob(k, [JobObj(k) EXCEPT !.complete = TRUE]) /\ UNCHANGED <<jobSeen, pods>>
    BY <1>6 DEF JobCompletes
  <2> QED BY <2>1, <2>2
<1>7. CASE GarbageCollected(k) BY <1>7, JobRemovedFollows DEF GarbageCollected
<1>8. CASE JobDeleted(k)
  <2>1. "jobdelete" \in faults' BY <1>8 DEF JobDeleted, Disturb
  <2> QED BY <1>8, <2>1, JobRemovedFollows DEF JobDeleted
<1> QED BY <1>3, <1>4, <1>5, <1>6, <1>7, <1>8
        DEF Cluster, PodStarts, JobSeen, PodSeen, PodCollected, PodLost

LEMMA ClusterLeaves ==
  ASSUME TestTypeOK, Ends, NEW k \in Keys, Cluster(k), UNCHANGED jobs
  PROVE  \A j \in Keys : \A id \in pods'[j] :
           id \in pods[j] \/ (JobObj(j).live /\ id = JobObj(j).id)
<1>1. pods \in [Keys -> SUBSET Nat] BY DEF TestTypeOK
<1>2. CASE PodStarts(k) BY <1>1, <1>2 DEF PodStarts, Running
<1>3. CASE PodLost(k) BY <1>1, <1>3 DEF PodLost
<1>4. CASE PodCollected(k) BY <1>1, <1>4 DEF PodCollected
<1>5. CASE UNCHANGED pods BY <1>5
<1> QED BY <1>2, <1>3, <1>4, <1>5
        DEF Cluster, JobSucceeds, JobFails, JobCompletes, JobSeen, PodSeen, GarbageCollected,
            JobDeleted, JobRemoved, JobSucceedsEarly

LEMMA ClusterJobs ==
  ASSUME TestInv, JobsKept, NEW k \in Keys, Cluster(k)
  PROVE  JobsKept'
<1>1. TestTypeOK /\ RuntimeTypeOK BY DEF TestInv, TestTypeOK
<1>2. UNCHANGED <<revisions, active, worker>> /\ faults \subseteq faults'
  BY DEF Cluster, runtimeVars, JobDeleted, PodLost, JobSucceedsEarly, Disturb
<1>3. /\ Without({"recreate"})' => OneIncarnation' /\ OneIncarnation /\ JobsOwned
      /\ JobsToldApart' => JobStays /\ OneIncarnation /\ JobsOwned /\ "jobdelete" \notin faults'
  BY <1>2, UnchangedIncarnation DEF JobsKept, JobsToldApart, Without
<1>4. Ends /\ AllLaunched /\ worker'.sec \in {10, 30} BY <1>2 DEF JobsKept
<1>5. CASE UNCHANGED jobs
  <2>1. Ends' BY <1>4, <1>5 DEF Ends
  <2>2. AllLaunched'
    <3>1. \A j \in Keys : \A id \in pods'[j] :
            id \in pods[j] \/ (JobObj(j).live /\ id = JobObj(j).id)
      BY <1>1, <1>4, <1>5, ClusterLeaves
    <3> QED BY <1>1, <1>4, <1>5, <3>1, PodsLaunched
  <2>3. (JobsOwned => JobsOwned') /\ (JobStays => JobStays')
    <3>1. \A j, uid : BelongsTo(j, uid)' <=> BelongsTo(j, uid) BY <1>2, UnchangedIncarnation
    <3> QED BY <1>2, <1>5, <3>1 DEF JobsOwned, JobStays, Obj, Latest, Follows
  <2> QED BY <1>3, <1>4, <2>1, <2>2, <2>3 DEF JobsKept
<1>6. ASSUME NEW job \in Job, StoreJob(k, job), Sane(job), Follows(JobObj(k), job),
             UNCHANGED <<jobSeen, pods>>,
             \/ job.live \/ "jobdelete" \in faults'
             \/ ~(Obj(k).live /\ Obj(k).uid = JobObj(k).owner)
      PROVE  JobsKept'
  <2>1. Ends' BY <1>1, <1>4, <1>6, JobStoredEnds
  <2>2. AllLaunched'
    <3>1. job.id = JobObj(k).id /\ (job.live => JobObj(k).live) BY <1>6 DEF Follows
    <3> QED BY <1>1, <1>4, <1>6, <3>1, JobStoredLaunched
  <2>3. Len(jobs[k]) \in 1..Len(jobs[k]) /\ Latest(k) \in 1..Latest(k)
    <3>1. Latest(k) \in Nat /\ Latest(k) >= 1 BY <1>1, ObjectsTyped
    <3>2. Len(jobs[k]) \in Nat /\ Len(jobs[k]) >= 1 BY <1>1, JobsTyped
    <3> QED BY <3>1, <3>2
  <2>4. JobsOwned => JobsOwned'
    <3>1. ASSUME JobsOwned PROVE job.live => BelongsTo(k, job.owner)
      BY <1>6, <2>3, <3>1 DEF JobsOwned, Follows, JobObj
    <3> QED BY <1>1, <1>2, <1>6, <3>1, JobStoredBelongs
  <2>5. JobStays /\ OneIncarnation /\ JobsOwned /\ "jobdelete" \notin faults' => JobStays'
    <3> SUFFICES ASSUME JobStays, OneIncarnation, JobsOwned, "jobdelete" \notin faults'
                 PROVE  JobStays'
      OBVIOUS
    <3>1. ASSUME Obj(k).live, JobObj(k).live PROVE Obj(k).uid = JobObj(k).owner
      <4>1. BelongsTo(k, JobObj(k).owner) BY <2>3, <3>1 DEF JobsOwned, JobObj
      <4> QED BY <2>3, <3>1, <4>1 DEF BelongsTo, Obj
    <3>2. Obj(k).live /\ JobObj(k).live => job.live /\ Follows(JobObj(k), job)
      BY <1>6, <3>1
    <3> QED BY <1>1, <1>2, <1>6, <3>2, JobStoredStays
  <2> QED BY <1>3, <1>4, <2>1, <2>2, <2>4, <2>5 DEF JobsKept
<1> QED BY <1>1, <1>4, <1>5, <1>6, ClusterStores

LEMMA NewJobJobs ==
  ASSUME TestInv, JobsKept, NEW k \in Keys, Cached(k).live, ~JobObj(k).live,
         StoreJob(k, newJobForCR(k, Cached(k))), UNCHANGED <<revisions, pods>>,
         faults \subseteq faults', worker'.sec \in {10, 30}
  PROVE  JobsKept'
<1>1. TestTypeOK /\ RuntimeTypeOK BY DEF TestInv, TestTypeOK
<1>2. PICK job : job = newJobForCR(k, Cached(k)) OBVIOUS
<1>3. job \in Job /\ StoreJob(k, job) BY <1>1, <1>2, NewJobTyped
<1>4. /\ Sane(job) /\ job.live /\ job.owner = Cached(k).uid /\ job.id = Len(jobs[k]) + 1
  BY <1>2 DEF newJobForCR, Sane
<1>5. /\ Without({"recreate"})' => OneIncarnation' /\ OneIncarnation /\ JobsOwned
      /\ JobsToldApart' => JobStays
  BY UnchangedIncarnation DEF JobsKept, JobsToldApart, Without
<1>6. Ends /\ AllLaunched BY DEF JobsKept
<1>7. Ends' BY <1>1, <1>3, <1>4, <1>6, JobStoredEnds
<1>8. AllLaunched' BY <1>1, <1>3, <1>4, <1>6, JobStoredLaunched
<1>9. OneIncarnation /\ JobsOwned => JobsOwned'
  <2>1. seen[k] \in 1..Latest(k) BY <1>1, ObjectsTyped
  <2>2. OneIncarnation => BelongsTo(k, job.owner) BY <1>4, <2>1 DEF OneIncarnation, Cached
  <2> QED BY <1>1, <1>3, <2>2, JobStoredBelongs
<1>10. JobStays => JobStays' BY <1>1, <1>3, JobStoredStays
<1> QED BY <1>5, <1>7, <1>8, <1>9, <1>10 DEF JobsKept

LEMMA BeginJobs ==
  ASSUME TestInv, JobsKept, NEW k \in Keys, Begin(k)
  PROVE  JobsKept'
<1>1. worker.sec \in {10, 30} BY DEF JobsKept
<1>2. UNCHANGED revisions /\ faults \subseteq faults'
  BY DEF Begin, BeginSkips, BeginFindsJob, BeginCreatesJob, BeginFails, Disturb
<1>3. worker'.sec \in {10, 30}
  BY <1>1 DEF Begin, BeginSkips, BeginFindsJob, BeginCreatesJob, BeginFails, StartPolling, Idle
<1>4. CASE UNCHANGED jobs
  <2>1. UNCHANGED pods
    BY DEF Begin, BeginSkips, BeginFindsJob, BeginCreatesJob, BeginFails, jobVars
  <2> QED BY <1>2, <1>3, <1>4, <2>1, QuietJobs
<1>5. CASE BeginCreatesJob(k) BY <1>2, <1>3, <1>5, NewJobJobs DEF BeginCreatesJob
<1>6. CASE BeginFails(k) /\ ~UNCHANGED jobs
  BY <1>2, <1>3, <1>6, NewJobJobs DEF BeginFails
<1> QED BY <1>4, <1>5, <1>6 DEF Begin, BeginSkips, BeginFindsJob, jobVars

(* A worker that waits for a Job waits for at most thirty seconds at once. *)
LEMMA RestartJobs ==
  ASSUME TestInv, JobsKept, Restart, faults \subseteq faults'
  PROVE  JobsKept'
<1>1. UNCHANGED <<revisions, jobs, pods>> /\ worker'.sec = 10
  BY DEF Restart, RuntimeRestarts, Idle
<1> QED BY <1>1, QuietJobs

LEMMA PollWaitsJobs ==
  ASSUME TestInv, JobsKept, PollWaits
  PROVE  JobsKept'
<1>1. worker \in Worker /\ worker.sec \in {10, 30} BY DEF TestInv, TestTypeOK, JobsKept
<1>2. CASE PollMissing
  <2>1. worker' = [worker EXCEPT !.sec = SleepAfter(@)] /\ UNCHANGED <<runtimeVars, jobVars>>
    BY <1>1, <1>2 DEF PollMissing
  <2>2. worker'.sec = 30 BY <1>1, <2>1 DEF Worker, SleepAfter
  <2> QED BY <2>1, <2>2, QuietJobs DEF runtimeVars, jobVars
<1>3. CASE PollFailed
  <2>1. worker'.sec = worker.sec BY <1>1, <1>3 DEF PollFailed, Decide, Worker
  <2> QED BY <1>1, <1>3, <2>1, QuietJobs DEF PollFailed, runtimeVars, jobVars
<1>4. CASE PollUnfinished \/ PollLogsFail
  <2>1. UNCHANGED <<jobVars, revisions>> /\ worker' = Idle /\ faults \subseteq faults'
    BY <1>4 DEF PollUnfinished, PollLogsFail, Disturb
  <2> QED BY <2>1, QuietJobs DEF Idle, jobVars
<1>5. CASE PollPanics BY <1>5, RestartJobs DEF PollPanics
<1> QED BY <1>2, <1>3, <1>4, <1>5 DEF PollWaits

LEMMA updateStatusJobs ==
  ASSUME TestInv, JobsKept, NEW next \in {"idle", "config"}, updateStatus(next)
  PROVE  JobsKept'
<1>1. /\ TestTypeOK /\ RuntimeTypeOK /\ worker \in Worker /\ worker.sec \in {10, 30}
      /\ active \in Keys
  BY PollingHoldsKey DEF updateStatus, TestInv, TestTypeOK, JobsKept
<1>2. worker'.sec \in {10, 30} BY <1>1 DEF updateStatus, Idle, Worker
<1>3. faults \subseteq faults' BY DEF updateStatus, WriteStatus, Disturb
<1>4. \/ UNCHANGED revisions
      \/ \E k \in Keys : \E object \in Object :
           /\ Store(k, object)
           /\ object.live => Latest(k) = 1 \/ (Obj(k).live /\ object.uid = Obj(k).uid)
  <2>1. CASE worker.snap = Latest(active)
    <3>1. Obj(active) \in Object /\ Obj(active) = revisions[active][worker.snap]
      BY <1>1, <2>1, ObjectsTyped DEF Obj
    <3>2. LET object == [revisions[active][worker.snap] EXCEPT !.status = worker.verdict]
          IN object \in Object /\ object.uid = Obj(active).uid /\ object.live = Obj(active).live
      BY <1>1, <3>1 DEF Object, Worker
    <3> QED BY <1>1, <3>2 DEF updateStatus, WriteStatus
  <2> QED BY <2>1 DEF updateStatus, WriteStatus
<1> QED BY <1>2, <1>3, <1>4, QuietJobs DEF updateStatus, jobVars

LEMMA EnvironmentJobs ==
  ASSUME TestInv, JobsKept, NEW k \in Keys, Environment(k)
  PROVE  JobsKept'
<1>1. RuntimeTypeOK BY DEF TestInv, TestTypeOK
<1>2. CASE User(k) /\ UNCHANGED <<jobVars, worker>>
  <2>1. faults \subseteq faults'
    BY <1>2 DEF User, UserCreates, UserEdits, UserDeletes, Disturb
  <2>2. worker'.sec \in {10, 30} BY <1>2 DEF JobsKept
  <2> QED BY <1>1, <1>2, <2>1, <2>2, UserStoresOwn, QuietJobs DEF jobVars
<1>3. CASE Informer(k) /\ UNCHANGED <<jobVars, worker>>
  <2>1. UNCHANGED revisions /\ faults \subseteq faults'
    BY <1>3 DEF Informer, InformerReceives, HandlerEnqueues, Resync, ResyncLags, Disturb
  <2>2. worker'.sec \in {10, 30} BY <1>3 DEF JobsKept
  <2> QED BY <1>3, <2>1, <2>2, QuietJobs DEF jobVars
<1> QED BY <1>2, <1>3, ClusterJobs DEF Environment

LEMMA InitJobs == TestInit => JobsKept
<1> SUFFICES ASSUME TestInit PROVE JobsKept OBVIOUS
<1>1. \A k \in Keys : Len(jobs[k]) = 1 /\ jobs[k][1] = NoJob /\ pods[k] = {}
  BY DEF TestInit
<1>2. Ends BY <1>1 DEF Ends, Sane, NoJob
<1>3. AllLaunched BY <1>1 DEF AllLaunched, NoJob
<1>4. JobsOwned /\ JobStays BY <1>1 DEF JobsOwned, JobStays, NoJob
<1> QED BY <1>2, <1>3, <1>4, InitIncarnation DEF TestInit, JobsKept, Idle

(* The test a worker is about to report on does not come back once deleted.*)
LEMMA UserLeavesGone ==
  ASSUME TestInv, NEW k \in Keys, User(k), "recreate" \notin faults', worker.pc = "status"
  PROVE  Obj(active)'.live => Obj(active).live
<1>1. RuntimeTypeOK BY DEF TestInv, TestTypeOK
<1>2. PICK object \in Object :
        /\ Store(k, object)
        /\ object.live => Latest(k) = 1 \/ (Obj(k).live /\ object.uid = Obj(k).uid)
  BY <1>1, UserStoresOwn
<1>3. /\ active \in Keys /\ worker.snap \in 1..Latest(active)
      /\ revisions[active][worker.snap].live
  BY SnapshotTyped DEF TestInv, SnapshotUndecided
<1>4. Obj(k)' = object /\ \A j \in Keys \ {k} : revisions'[j] = revisions[j]
  BY <1>1, <1>2, StoreAppends
<1>5. Latest(active) = 1 => Obj(active).live
  <2>1. Latest(active) = 1 => worker.snap = 1 BY <1>3
  <2> QED BY <1>3, <2>1 DEF Obj
<1>6. CASE active = k
  <2>1. Obj(active)' = object
    <3>1. UNCHANGED active BY <1>1, UserTyped
    <3> QED BY <1>4, <1>6, <3>1
  <2> QED BY <1>2, <1>5, <1>6, <2>1
<1>7. CASE active # k
  <2>1. UNCHANGED active BY <1>1, UserTyped
  <2> QED BY <1>3, <1>4, <1>7, <2>1 DEF Obj, Latest
<1> QED BY <1>6, <1>7

(* So the pod whose log is read, be it any of the list, is that of the     *)
(* test's own Job, which has ended.                                        *)
LEMMA ReadEnded ==
  ASSUME TestInv, JobsKept, JobsToldApart, Polls, CachedJob(active).live,
         CachedJob(active).complete, Obj(active).live
  PROVE  /\ JobObj(active).live /\ JobObj(active).complete /\ JobObj(active).succeeded = 1
         /\ JobObj(active).log = CachedJob(active).log
         /\ JobObj(active).owner = revisions[active][worker.snap].uid
         /\ \A j \in Listed(active) : j = Len(jobs[active])
<1>1. /\ TestTypeOK /\ RuntimeTypeOK /\ active \in Keys /\ worker.snap \in 1..seen[active]
      /\ revisions[active][worker.snap].live
  BY PollingHoldsKey DEF Polls, TestInv, TestTypeOK, SnapshotUndecided
<1> SUFFICES ASSUME NEW k \in Keys, k = active, NEW n, n = Len(jobs[k]), NEW c, c = jobSeen[k]
             PROVE  /\ JobObj(k).live /\ JobObj(k).complete /\ JobObj(k).succeeded = 1
                    /\ JobObj(k).log = CachedJob(k).log
                    /\ JobObj(k).owner = revisions[k][worker.snap].uid
                    /\ \A j \in Listed(k) : j = n
  BY <1>1
<1>2. n \in Nat /\ c \in Nat /\ 1 <= c /\ c <= n BY <1>1, JobsTyped
<1>3. c \in 1..n /\ n \in 1..n BY <1>2
<1>4. jobs[k][c].live /\ jobs[k][c].complete /\ JobObj(k) = jobs[k][n] /\ CachedJob(k) = jobs[k][c]
  BY DEF CachedJob, JobObj
<1>5. Ends /\ AllLaunched /\ JobStays /\ OneIncarnation /\ JobsOwned
  BY DEF JobsKept, JobsToldApart, Without
<1>6. jobs[k][n].live /\ jobs[k][n].complete /\ jobs[k][n].log = jobs[k][c].log
  BY <1>3, <1>4, <1>5 DEF JobStays, Follows
<1>7. jobs[k][n].owner = revisions[k][worker.snap].uid
  <2>1. seen[k] \in Nat /\ Latest(k) \in Nat /\ seen[k] <= Latest(k) BY <1>1, ObjectsTyped
  <2>2. worker.snap \in 1..Latest(k) BY <1>1, <2>1
  <2> QED BY <1>1, <1>3, <1>5, <1>6, <2>2 DEF JobsOwned, BelongsTo
<1>8. jobs[k][n].succeeded = 1 BY <1>3, <1>5, <1>6 DEF Ends, Sane
<1>9. ASSUME NEW j \in Listed(k) PROVE j = n
  <2>1. /\ j \in 1..n /\ jobs[k][j].id \in pods[k]
        /\ \A i \in (j + 1)..n : jobs[k][i].id # jobs[k][j].id
    BY DEF Listed
  <2>2. PICK id : id = jobs[k][j].id OBVIOUS
  <2>3. id \in 1..n /\ jobs[k][id].live /\ jobs[k][id].id = id
    BY <1>5, <2>1, <2>2 DEF AllLaunched, Launched
  <2>4. jobs[k][n].id = id BY <1>3, <1>5, <2>3 DEF JobStays, Follows
  <2>5. n \notin (j + 1)..n BY <2>1, <2>2, <2>4
  <2> QED BY <1>2, <2>1, <2>5
<1> QED BY <1>4, <1>6, <1>7, <1>8, <1>9

-----------------------------------------------------------------------------
(* The inductive invariant holds at the start.                             *)
LEMMA InitInv == TestInit => TestInv
<1> SUFFICES ASSUME TestInit PROVE TestInv OBVIOUS
<1>1. Absent \in Object BY StatusAssumption DEF Absent, Object
<1>2. NoJob \in Job
  <2>1. NoLog \in AnyLog BY DEF AnyLog
  <2> QED BY <2>1 DEF NoJob, Job
<1>3. <<Absent>> \in Seq(Object) /\ Len(<<Absent>>) = 1 BY <1>1
<1>4. <<NoJob>> \in Seq(Job) /\ Len(<<NoJob>>) = 1 BY <1>2
<1>5. RuntimeTypeOK
  BY <1>3, FaultAssumption DEF TestInit, RuntimeInit, RuntimeTypeOK
<1>6. Idle \in Worker BY StatusAssumption DEF Idle, Worker
<1>7. TestTypeOK
  BY <1>4, <1>5, <1>6 DEF TestInit, RuntimeInit, TestTypeOK, Idle
<1> QED BY <1>7 DEF TestInit, TestInv, SnapshotUndecided, VerdictMade, Idle

LEMMA InitRemembers == TestInit => TimelyCompletion /\ NoneForgotten
<1> SUFFICES ASSUME TestInit PROVE TimelyCompletion /\ NoneForgotten OBVIOUS
<1>1. \A k \in Keys : Obj(k) = Absent BY DEF TestInit, RuntimeInit, Obj, Latest
<1>2. NoneForgotten BY <1>1 DEF NoneForgotten, Absent
<1>3. TimelyCompletion BY DEF TestInit, TimelyCompletion, NoJob
<1> QED BY <1>2, <1>3
=============================================================================
