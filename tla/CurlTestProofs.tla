-------------------------- MODULE CurlTestProofs --------------------------
(***************************************************************************)
(* What holds of the CurlTest controller for any number of tests, specs    *)
(* and disturbances: its types, that no test is lost or measured twice,    *)
(* and that it has one result, which is earned.                            *)
(***************************************************************************)
EXTENDS CurlTest, TestJobProofs

LEMMA ReadsLogsDecides ==
  ASSUME ReadsLogs
  PROVE  /\ Polls
         /\ \E verdict \in Statuses \ {Blank} : Decide(verdict)
         /\ UNCHANGED <<runtimeVars, jobVars>>
<1>1. \A spec, log : writeConditionsFromLogs(spec, log) \in {"Success", "Failure"}
  BY DEF writeConditionsFromLogs
<1>2. PICK log \in AnyLog :
        PollReadsLogs(log, writeConditionsFromLogs(revisions[active][worker.snap].spec, log))
  BY DEF ReadsLogs
<1> QED BY <1>1, <1>2, ResultsAssumption DEF PollReadsLogs, CanRead

LEMMA NextKeeps ==
  ASSUME TestInv, [Next]_testVars
  PROVE  TestInv'
<1>1. CASE UNCHANGED testVars
  BY <1>1 DEF testVars, runtimeVars, jobVars, TestInv, TestTypeOK, RuntimeTypeOK,
              SnapshotUndecided, VerdictMade
<1>2. ASSUME NEW k \in Keys, Begin(k) PROVE TestInv' BY <1>2, BeginKeeps
<1>3. CASE PollWaits BY <1>3, PollWaitsKeeps
<1>4. CASE ReadsLogs BY <1>4, ReadsLogsDecides, DecideKeeps
<1>5. CASE Finishes BY <1>5, updateStatusKeeps DEF Finishes
<1>6. CASE Crash
  BY <1>6, DisturbCounts, RestartKeeps DEF Crash, TestInv, TestTypeOK
<1>7. ASSUME NEW k \in Keys, Environment(k) PROVE TestInv'
  BY <1>7, UserKeeps, InformerKeeps, ClusterKeeps DEF Environment
<1> QED BY <1>1, <1>2, <1>3, <1>4, <1>5, <1>6, <1>7 DEF Next, Reconcile

(* The inductive invariant holds at the start and after every step.        *)
LEMMA Invariance == Spec => []TestInv
BY InitInv, NextKeeps, PTL DEF Spec, Init

(* The variables keep their types: no version, position or counter leaves  *)
(* its range, and the worker holds a key exactly while it is busy.         *)
THEOREM TypeCorrect == Spec => []TypeOK
BY Invariance, PTL DEF TestInv, TypeOK

-----------------------------------------------------------------------------
(* The controller implements the abstract test, its initial state and      *)
(* every step: whoever watches a CurlTest sees it asked for, decided once  *)
(* and perhaps withdrawn.                                                  *)
THEOREM IsATest == Spec => OneResult
<1>1. Init => Outside!Init BY InitOutside DEF Init
<1>2. ASSUME TestInv, [Next]_testVars PROVE OutsideStep
  <2>1. RuntimeTypeOK BY <1>2 DEF TestInv, TestTypeOK
  <2>2. CASE (\E k \in Keys : Begin(k)) \/ PollWaits \/ Crash BY <2>2, WorkerOutside
  <2>3. CASE ReadsLogs \/ UNCHANGED testVars
    BY <2>3, UnchangedOutside DEF ReadsLogs, PollReadsLogs, runtimeVars, testVars
  <2>4. CASE Finishes BY <1>2, <2>4, updateStatusOutside DEF Finishes
  <2>5. ASSUME NEW k \in Keys, Environment(k) PROVE OutsideStep
    BY <2>1, <2>5, EnvironmentOutside
  <2> QED BY <1>2, <2>2, <2>3, <2>4, <2>5 DEF Next, Reconcile
<1> QED BY <1>1, <1>2, Invariance, PTL
  DEF Spec, OneResult, OutsideStep, Standings, Outside!Spec

-----------------------------------------------------------------------------
(* A disturbance that did not happen up to a step's end had not before.    *)
LEMMA FaultsAccumulate ==
  ASSUME [Next]_testVars
  PROVE  faults \subseteq faults'
<1>1. CASE Finishes
  BY <1>1 DEF Finishes, updateStatus, WriteStatus, Disturb
<1>2. ASSUME NEW k \in Keys, Begin(k) PROVE faults \subseteq faults'
  BY <1>2 DEF Begin, BeginSkips, BeginFindsJob, BeginCreatesJob, BeginFails, Disturb
<1>3. CASE PollWaits
  BY <1>3 DEF PollWaits, PollMissing, PollFailed, PollUnfinished, PollLogsFail, PollPanics,
              Disturb, runtimeVars
<1>4. CASE ReadsLogs \/ Crash \/ UNCHANGED testVars
  BY <1>4 DEF ReadsLogs, PollReadsLogs, Crash, Disturb, runtimeVars, testVars
<1>5. ASSUME NEW k \in Keys, Environment(k) PROVE faults \subseteq faults'
  <2>1. CASE User(k)
    BY <2>1 DEF User, UserCreates, UserEdits, UserDeletes, Disturb
  <2>2. CASE Informer(k)
    BY <2>2 DEF Informer, InformerReceives, HandlerEnqueues, Resync, ResyncLags, Disturb
  <2>3. CASE Cluster(k)
    BY <2>3 DEF Cluster, JobDeleted, PodLost, JobSucceedsEarly, Disturb, runtimeVars
  <2> QED BY <1>5, <2>1, <2>2, <2>3 DEF Environment
<1> QED BY <1>1, <1>2, <1>3, <1>4, <1>5 DEF Next, Reconcile

(* Unless a status write failed by itself or Complete came late, no        *)
(* undecided test drops out of queue, notifications, cache lag and worker, *)
(* so none depends on the ten-hour resync to be worked on.                 *)
THEOREM NoTestIsLost == Spec => []NoLostTest
<1> DEFINE Calm == Without({"statusfails", "latecondition"})
           Kept == TestInv /\ (Calm => TimelyCompletion /\ NoneForgotten)
<1>1. Init => Kept
  BY InitInv, InitRemembers DEF Init
<1>2. ASSUME TestInv, TimelyCompletion, Calm', [Next]_testVars PROVE TimelyCompletion'
  <2>1. TestTypeOK BY <1>2 DEF TestInv
  <2>2. CASE UNCHANGED jobs BY <1>2, <2>2 DEF TimelyCompletion
  <2>3. ASSUME NEW k \in Keys, Begin(k) PROVE TimelyCompletion'
    BY <1>2, <2>1, <2>3, BeginTimely
  <2>4. ASSUME NEW k \in Keys, Cluster(k) PROVE TimelyCompletion'
    <3>1. "latecondition" \notin faults' BY <1>2 DEF Without
    <3> QED BY <1>2, <2>1, <2>4, <3>1, ClusterTimely
  <2>5. CASE PollWaits \/ ReadsLogs \/ Finishes \/ Crash \/ UNCHANGED testVars
    <3>1. UNCHANGED jobs
      BY <2>5
      DEF PollWaits, PollMissing, PollFailed, PollUnfinished, PollLogsFail, PollPanics,
          ReadsLogs, PollReadsLogs, Finishes, updateStatus, Crash, Restart, jobVars, testVars
    <3> QED BY <2>2, <3>1
  <2>6. ASSUME NEW k \in Keys, Environment(k) PROVE TimelyCompletion'
    <3>1. CASE UNCHANGED jobVars BY <2>2, <3>1 DEF jobVars
    <3> QED BY <2>4, <2>6, <3>1 DEF Environment
  <2> QED BY <1>2, <2>3, <2>5, <2>6 DEF Next, Reconcile
<1>3. ASSUME TestInv, TimelyCompletion, NoneForgotten, Calm', [Next]_testVars
      PROVE  NoneForgotten'
  <2>1. ASSUME NEW k \in Keys, Begin(k) PROVE NoneForgotten'
    BY <1>3, <2>1, BeginRemembers
  <2>2. CASE PollWaits BY <1>3, <2>2, PollWaitsRemembers
  <2>3. CASE ReadsLogs BY <1>3, <2>3, ReadsLogsDecides, DecideRemembers
  <2>4. CASE Finishes
    <3>1. "statusfails" \notin faults' BY <1>3 DEF Without
    <3> QED BY <1>3, <2>4, <3>1, updateStatusRemembers DEF Finishes
  <2>5. CASE Crash BY <2>5, RestartRemembers DEF Crash
  <2>6. CASE UNCHANGED <<revisions, seen, notify, queue, active, worker>>
    BY <1>3, <2>6 DEF NoneForgotten, Remembered, Obj, Latest
  <2>7. ASSUME NEW k \in Keys, Environment(k) PROVE NoneForgotten'
    <3>1. CASE Cluster(k) BY <2>6, <3>1 DEF Cluster, runtimeVars
    <3> QED BY <1>3, <2>7, <3>1, UserRemembers, InformerRemembers DEF Environment
  <2> QED BY <1>3, <2>1, <2>2, <2>3, <2>4, <2>5, <2>6, <2>7
          DEF Next, Reconcile, testVars, runtimeVars
<1>4. Kept /\ [Next]_testVars => Kept'
  <2> SUFFICES ASSUME Kept, [Next]_testVars PROVE Kept' OBVIOUS
  <2>1. Calm' => Calm BY FaultsAccumulate DEF Without
  <2> QED BY <1>2, <1>3, <2>1, NextKeeps
<1>5. Kept => NoLostTest BY DEF NoLostTest
<1> QED BY <1>1, <1>4, <1>5, PTL DEF Spec

(* As long as a test exists and nobody deletes its Job, one Job at most is *)
(* launched for it, however its creation is retried, interrupted or        *)
(* answered from a cache that is behind.                                   *)
THEOREM OneJobPerTest == Spec => []OneJob
<1> DEFINE Calm == Without({"jobdelete"})
           Kept == TestInv /\ (Calm => Numbered /\ LaunchStands)
<1>1. Init => Kept BY InitInv, InitLaunches DEF Init
<1>2. ASSUME TestInv, Numbered, LaunchStands, Calm', [Next]_testVars
      PROVE  Numbered' /\ LaunchStands'
  <2>1. TestTypeOK BY <1>2 DEF TestInv
  <2>2. ASSUME NEW k \in Keys, Begin(k) PROVE Numbered' /\ LaunchStands'
    BY <1>2, <2>1, <2>2, BeginLaunches
  <2>3. CASE PollWaits \/ ReadsLogs \/ Crash \/ UNCHANGED testVars
    <3>1. UNCHANGED <<revisions, jobs>>
      BY <2>3
      DEF PollWaits, PollMissing, PollFailed, PollUnfinished, PollLogsFail, PollPanics,
          ReadsLogs, PollReadsLogs, Crash, Restart, RuntimeRestarts, runtimeVars, jobVars,
          testVars
    <3> QED BY <1>2, <3>1, UnchangedLaunches
  <2>4. CASE Finishes BY <1>2, <2>4, updateStatusLaunches DEF Finishes
  <2>5. ASSUME NEW k \in Keys, Environment(k) PROVE Numbered' /\ LaunchStands'
    <3>1. CASE User(k) /\ UNCHANGED jobVars
      BY <1>2, <2>1, <3>1, UserLaunches DEF jobVars
    <3>2. CASE Informer(k) /\ UNCHANGED jobVars
      <4>1. UNCHANGED <<revisions, jobs>>
        BY <3>2
        DEF Informer, InformerReceives, HandlerEnqueues, Resync, ResyncLags, jobVars
      <4> QED BY <1>2, <4>1, UnchangedLaunches
    <3>3. CASE Cluster(k)
      <4>1. "jobdelete" \notin faults' BY <1>2 DEF Without
      <4> QED BY <1>2, <2>1, <3>3, <4>1, ClusterLaunches
    <3> QED BY <2>5, <3>1, <3>2, <3>3 DEF Environment
  <2> QED BY <1>2, <2>2, <2>3, <2>4, <2>5 DEF Next, Reconcile
<1>3. Kept /\ [Next]_testVars => Kept'
  <2> SUFFICES ASSUME Kept, [Next]_testVars PROVE Kept' OBVIOUS
  <2>1. Calm' => Calm BY FaultsAccumulate DEF Without
  <2> QED BY <1>2, <2>1, NextKeeps
<1>4. Kept => OneJob BY LaunchesOnce DEF OneJob, TestInv
<1> QED BY <1>1, <1>3, <1>4, PTL DEF Spec

-----------------------------------------------------------------------------
(* Results are earned: what the worker is about to write is backed by a    *)
(* Job of the test, from the poll that decided on it to the write.         *)
LEMMA NextJobs ==
  ASSUME TestInv, JobsKept, [Next]_testVars
  PROVE  JobsKept'
<1>1. CASE UNCHANGED testVars
  <2>1. UNCHANGED <<jobVars, faults, worker, active, revisions>>
    BY <1>1 DEF testVars, runtimeVars
  <2>2. worker'.sec \in {10, 30} BY <2>1 DEF JobsKept
  <2> QED BY <2>1, <2>2, QuietJobs DEF jobVars
<1>2. CASE ReadsLogs
  <2>1. worker \in Worker /\ worker.sec \in {10, 30} BY DEF TestInv, TestTypeOK, JobsKept
  <2>2. PICK verdict \in Statuses : Decide(verdict) BY <1>2, ReadsLogsDecides
  <2>3. worker'.sec \in {10, 30} BY <2>1, <2>2 DEF Decide, Worker
  <2>4. UNCHANGED <<jobVars, runtimeVars>> BY <1>2, ReadsLogsDecides
  <2> QED BY <2>3, <2>4, QuietJobs DEF jobVars, runtimeVars
<1>3. CASE Crash BY <1>3, RestartJobs DEF Crash, Disturb
<1>4. CASE Finishes BY <1>4, updateStatusJobs DEF Finishes
<1> QED BY <1>1, <1>2, <1>3, <1>4, BeginJobs, PollWaitsJobs, EnvironmentJobs
        DEF Next, Reconcile

(* What a Job ran, its test has asked for, in that incarnation.            *)
AskedFor(k, job) ==
  \E m \in 1..Latest(k) : /\ revisions[k][m].live
                          /\ revisions[k][m].uid = job.owner
                          /\ revisions[k][m].spec = job.spec
SpecsAsked ==
  \A k \in Keys : \A n \in 1..Len(jobs[k]) : jobs[k][n].live => AskedFor(k, jobs[k][n])

JobsAsked == JobsKept /\ SpecsAsked /\ (Without({"recreate", "edit"}) => Unedited)

RevisionsStay ==
  \A k \in Keys : /\ Latest(k) \in Nat /\ Latest(k)' \in Nat /\ Latest(k) <= Latest(k)'
                  /\ \A n \in 1..Latest(k) : revisions'[k][n] = revisions[k][n]

LEMMA NextStores ==
  ASSUME TestInv, [Next]_testVars, ~UNCHANGED revisions
  PROVE  \E k \in Keys : \E object \in Object :
           /\ Store(k, object)
           /\ Without({"recreate", "edit"})' /\ object.live =>
                Latest(k) = 1 \/ (Obj(k).live /\ object.spec = Obj(k).spec)
<1>1. TestTypeOK /\ RuntimeTypeOK BY DEF TestInv, TestTypeOK
<1>2. ASSUME NEW k \in Keys, User(k)
      PROVE  \E object \in Object :
               /\ Store(k, object)
               /\ Without({"recreate", "edit"})' /\ object.live =>
                    Latest(k) = 1 \/ (Obj(k).live /\ object.spec = Obj(k).spec)
  <2>1. CASE Without({"recreate", "edit"})'
    BY <1>1, <1>2, <2>1, UserStoresOwn DEF Without
  <2>2. CASE ~Without({"recreate", "edit"})' BY <1>1, <1>2, <2>2, UserStores
  <2> QED BY <2>1, <2>2
<1>3. CASE Finishes
  <2>1. /\ worker.snap = Latest(active) /\ worker \in Worker /\ active \in Keys
        /\ Store(active, [revisions[active][worker.snap] EXCEPT !.status = worker.verdict])
    BY <1>1, <1>3, SnapshotTyped DEF Finishes, updateStatus, WriteStatus, TestTypeOK
  <2>2. Obj(active) \in Object /\ Obj(active) = revisions[active][worker.snap]
    BY <1>1, <2>1, ObjectsTyped DEF Obj
  <2>3. LET object == [revisions[active][worker.snap] EXCEPT !.status = worker.verdict]
        IN object \in Object /\ object.spec = Obj(active).spec /\ object.live = Obj(active).live
    BY <2>1, <2>2 DEF Object, Worker
  <2> QED BY <2>1, <2>3
<1>4. ASSUME NEW k \in Keys, Informer(k) \/ Cluster(k) \/ Begin(k) PROVE UNCHANGED revisions
  BY <1>4 DEF Informer, InformerReceives, HandlerEnqueues, Resync, ResyncLags, Cluster,
              Begin, BeginSkips, BeginFindsJob, BeginCreatesJob, BeginFails, runtimeVars
<1>5. CASE PollWaits \/ ReadsLogs \/ Crash \/ UNCHANGED testVars
  BY <1>5 DEF PollWaits, PollMissing, PollFailed, PollUnfinished, PollLogsFail, PollPanics,
              ReadsLogs, PollReadsLogs, Crash, Restart, RuntimeRestarts, runtimeVars, testVars
<1> QED BY <1>2, <1>3, <1>4, <1>5 DEF Next, Reconcile, Environment

LEMMA NextRevisions ==
  ASSUME TestInv, [Next]_testVars
  PROVE  RevisionsStay
<1>1. RuntimeTypeOK BY DEF TestInv, TestTypeOK
<1>2. \A k \in Keys : Latest(k) \in Nat BY <1>1, ObjectsTyped
<1>3. CASE UNCHANGED revisions BY <1>2, <1>3 DEF RevisionsStay, Latest
<1>4. ASSUME NEW k \in Keys, NEW object \in Object, Store(k, object) PROVE RevisionsStay
  <2>1. /\ revisions' \in [Keys -> Seq(Object)]
        /\ \A j \in Keys : Latest(j)' >= Latest(j)
        /\ \A j \in Keys : \A n \in 1..Latest(j) : revisions'[j][n] = revisions[j][n]
    BY <1>1, <1>4, StoreAppends
  <2>2. \A j \in Keys : Latest(j)' \in Nat BY <2>1, LenProperties DEF Latest
  <2> QED BY <1>2, <2>1, <2>2 DEF RevisionsStay
<1> QED BY <1>3, <1>4, NextStores

LEMMA AskedStays ==
  ASSUME RevisionsStay, NEW k \in Keys, NEW job, AskedFor(k, job)
  PROVE  \E m \in 1..Latest(k)' : /\ revisions'[k][m].live
                                  /\ revisions'[k][m].uid = job.owner
                                  /\ revisions'[k][m].spec = job.spec
<1>1. PICK m \in 1..Latest(k) : /\ revisions[k][m].live
                                /\ revisions[k][m].uid = job.owner
                                /\ revisions[k][m].spec = job.spec
  BY DEF AskedFor
<1>2. m \in 1..Latest(k)' /\ revisions'[k][m] = revisions[k][m] BY DEF RevisionsStay
<1> QED BY <1>1, <1>2

(* A Job is launched for the spec the cache shows, and keeps it.           *)
LEMMA NextLaunches ==
  ASSUME TestInv, JobsKept, SpecsAsked, [Next]_testVars, ~UNCHANGED jobs
  PROVE  \E k \in Keys : \E job \in Job :
           StoreJob(k, job) /\ (job.live => AskedFor(k, job))
<1>1. TestTypeOK /\ RuntimeTypeOK /\ Ends BY DEF TestInv, TestTypeOK, JobsKept
<1>2. ASSUME NEW k \in Keys, Begin(k)
      PROVE  \E job \in Job : StoreJob(k, job) /\ (job.live => AskedFor(k, job))
  <2>1. PICK job : job = newJobForCR(k, Cached(k)) OBVIOUS
  <2>2. StoreJob(k, job) /\ Cached(k).live
    BY <1>2, <2>1 DEF Begin, BeginSkips, BeginFindsJob, BeginCreatesJob, BeginFails, jobVars
  <2>3. job \in Job /\ job.owner = Cached(k).uid /\ job.spec = Cached(k).spec
    BY <1>1, <2>1, NewJobTyped DEF newJobForCR
  <2>4. seen[k] \in 1..Latest(k) BY <1>1, ObjectsTyped
  <2> QED BY <2>2, <2>3, <2>4 DEF AskedFor, Cached
<1>3. ASSUME NEW k \in Keys, Cluster(k)
      PROVE  \E job \in Job : StoreJob(k, job) /\ (job.live => AskedFor(k, job))
  <2>1. PICK job \in Job : StoreJob(k, job) /\ Follows(JobObj(k), job)
    BY <1>1, <1>3, ClusterStores
  <2>2. Len(jobs[k]) \in 1..Len(jobs[k])
    <3>1. Len(jobs[k]) \in Nat /\ jobSeen[k] \in 1..Len(jobs[k]) BY <1>1, JobsTyped
    <3> QED BY <3>1
  <2>3. JobObj(k).live => AskedFor(k, JobObj(k)) BY <2>2 DEF SpecsAsked, JobObj
  <2> QED BY <2>1, <2>3 DEF Follows, AskedFor
<1>4. CASE PollWaits \/ ReadsLogs \/ Finishes \/ Crash \/ UNCHANGED testVars
  BY <1>4 DEF PollWaits, PollMissing, PollFailed, PollUnfinished, PollLogsFail, PollPanics,
              ReadsLogs, PollReadsLogs, Finishes, updateStatus, Crash, Restart, jobVars, testVars
<1> QED BY <1>2, <1>3, <1>4 DEF Next, Reconcile, Environment, jobVars

LEMMA NextAsked ==
  ASSUME TestInv, JobsKept, SpecsAsked, [Next]_testVars
  PROVE  SpecsAsked'
<1>1. TestTypeOK /\ RevisionsStay BY NextRevisions DEF TestInv
<1>2. ASSUME NEW k \in Keys, NEW job, AskedFor(k, job)
      PROVE  \E m \in 1..Latest(k)' : /\ revisions'[k][m].live
                                      /\ revisions'[k][m].uid = job.owner
                                      /\ revisions'[k][m].spec = job.spec
  BY <1>1, <1>2, AskedStays
<1> SUFFICES ASSUME NEW x \in Keys, NEW n \in 1..Len(jobs'[x]), jobs'[x][n].live,
                    NEW new, new = jobs'[x][n]
             PROVE  AskedFor(x, new)
  BY <1>2 DEF SpecsAsked, AskedFor
<1>3. CASE UNCHANGED jobs BY <1>3 DEF SpecsAsked
<1>4. ASSUME NEW k \in Keys, NEW job \in Job, StoreJob(k, job), job.live => AskedFor(k, job)
      PROVE  AskedFor(x, new)
  <2>1. /\ jobs'[k][Len(jobs[k]) + 1] = job
        /\ \A i \in 1..Len(jobs[k]) : jobs'[k][i] = jobs[k][i]
        /\ \A i \in 1..Len(jobs'[k]) : i \in 1..Len(jobs[k]) \/ i = Len(jobs[k]) + 1
        /\ \A j \in Keys \ {k} : jobs'[j] = jobs[j]
    BY <1>1, <1>4, StoreJobShape
  <2>2. CASE x = k /\ n = Len(jobs[k]) + 1 BY <1>4, <2>1, <2>2
  <2>3. CASE x # k \/ n \in 1..Len(jobs[k])
    <3>1. n \in 1..Len(jobs[x]) /\ jobs'[x][n] = jobs[x][n] BY <2>1, <2>3
    <3> QED BY <3>1 DEF SpecsAsked
  <2> QED BY <2>1, <2>2, <2>3
<1> QED BY <1>3, <1>4, NextLaunches

LEMMA NextKept ==
  ASSUME TestInv, JobsAsked, [Next]_testVars
  PROVE  JobsAsked'
<1>1. RuntimeTypeOK BY DEF TestInv, TestTypeOK
<1>2. JobsKept' /\ SpecsAsked' BY NextJobs, NextAsked DEF JobsAsked
<1>3. ASSUME Without({"recreate", "edit"})' PROVE Unedited'
  <2>1. Without({"recreate", "edit"}) /\ Without({"recreate"})
    BY <1>3, FaultsAccumulate DEF Without
  <2>2. Unedited /\ OneIncarnation BY <2>1 DEF JobsAsked, JobsKept
  <2>3. CASE UNCHANGED revisions BY <2>2, <2>3 DEF Unedited, Latest
  <2>4. CASE ~UNCHANGED revisions
    <3>1. PICK k \in Keys, object \in Object :
            /\ Store(k, object)
            /\ object.live => Latest(k) = 1 \/ (Obj(k).live /\ object.spec = Obj(k).spec)
      BY <1>3, <2>4, NextStores
    <3> QED BY <1>1, <2>2, <3>1, StoredUnedited
  <2> QED BY <2>3, <2>4
<1> QED BY <1>2, <1>3 DEF JobsAsked

Written == [revisions[active][worker.snap] EXCEPT !.status = worker.verdict]
Backed ==
  worker.pc = "status" /\ Obj(active).live =>
    \E j \in 1..Len(jobs[active]) : jobs[active][j].live /\ Backs(jobs[active][j], Written)
Earned ==
  \A k \in Keys : \A n \in 2..Latest(k) : Reported(k, n) =>
    \E j \in 1..Len(jobs[k]) :
      Backs(jobs[k][j], revisions[k][n]) /\ Asked(k, n, jobs[k][j].spec)

LEMMA WrittenShape ==
  ASSUME TestInv, worker.pc # "idle"
  PROVE  /\ Written \in Object /\ Written.status = worker.verdict
         /\ Written.uid = revisions[active][worker.snap].uid
         /\ Written.spec = revisions[active][worker.snap].spec
BY SnapshotTyped DEF Written, Object, Worker

(* Revisions of Jobs and tests stay, and so does what they back.           *)
LEMMA EarnedStays ==
  ASSUME JobsGrow, RevisionsStay, faults \subseteq faults', Earned,
         NEW k \in Keys, NEW n \in 2..Latest(k), Reported(k, n)
  PROVE  \E j \in 1..Len(jobs'[k]) :
           Backs(jobs'[k][j], revisions'[k][n]) /\ Asked(k, n, jobs[k][j].spec)'
<1>1. PICK j \in 1..Len(jobs[k]) :
        Backs(jobs[k][j], revisions[k][n]) /\ Asked(k, n, jobs[k][j].spec)
  BY DEF Earned
<1>2. j \in 1..Len(jobs'[k]) /\ jobs'[k][j] = jobs[k][j] BY DEF JobsGrow
<1>3. \A m \in 1..n : m \in 1..Latest(k) BY DEF RevisionsStay
<1>4. n \in 1..n /\ \A m \in 1..n : revisions'[k][m] = revisions[k][m]
  BY <1>3 DEF RevisionsStay
<1>5. Asked(k, n, jobs[k][j].spec)' BY <1>1, <1>2, <1>4 DEF Asked, Without
<1> QED BY <1>1, <1>2, <1>4, <1>5

LEMMA UnchangedEarned ==
  ASSUME JobsGrow, RevisionsStay, faults \subseteq faults', Earned, UNCHANGED revisions
  PROVE  Earned'
<1> SUFFICES ASSUME NEW k \in Keys, NEW n \in 2..Latest(k), Reported(k, n)
             PROVE  \E j \in 1..Len(jobs'[k]) :
                      Backs(jobs'[k][j], revisions'[k][n]) /\ Asked(k, n, jobs[k][j].spec)'
  BY DEF Earned, Reported, Latest
<1> QED BY EarnedStays

LEMMA StoredEarned ==
  ASSUME RuntimeTypeOK, JobsGrow, RevisionsStay, faults \subseteq faults', Earned,
         NEW k \in Keys, NEW object \in Object, Store(k, object),
         object.status # Blank /\ Obj(k).status = Blank =>
           \E j \in 1..Len(jobs[k]) :
             /\ jobs[k][j].live /\ Backs(jobs[k][j], object) /\ AskedFor(k, jobs[k][j])
             /\ Without({"edit"})' => jobs[k][j].spec = object.spec
  PROVE  Earned'
<1> SUFFICES ASSUME NEW x \in Keys, NEW n \in 2..Latest(x)',
                    revisions'[x][n].status # Blank, revisions'[x][n - 1].status = Blank
             PROVE  \E j \in 1..Len(jobs'[x]) :
                      Backs(jobs'[x][j], revisions'[x][n]) /\ Asked(x, n, jobs[x][j].spec)'
  BY DEF Earned, Reported
<1>1. /\ Latest(k)' = Latest(k) + 1 /\ Obj(k)' = object
      /\ \A m \in 1..Latest(k) : revisions'[k][m] = revisions[k][m]
      /\ \A j \in Keys \ {k} : revisions'[j] = revisions[j]
      /\ Latest(k) \in Nat /\ Latest(k) >= 1
  BY StoreAppends, ObjectsTyped
<1>2. CASE x # k \/ n \in 2..Latest(k)
  <2>1. n \in 2..Latest(x) BY <1>1, <1>2 DEF Latest
  <2>2. n \in 1..Latest(x) /\ n - 1 \in 1..Latest(x) BY <1>1, <2>1 DEF RevisionsStay
  <2>3. Reported(x, n) BY <2>2 DEF Reported, RevisionsStay
  <2> QED BY <2>1, <2>3, EarnedStays
<1>3. CASE x = k /\ n = Latest(k) + 1
  <2>1. revisions'[k][n] = object BY <1>1, <1>3 DEF Obj, Latest
  <2>2. n - 1 = Latest(k) /\ Latest(k) \in 1..Latest(k) BY <1>1, <1>3
  <2>3. Obj(k).status = Blank BY <1>1, <1>3, <2>2 DEF Obj
  <2>4. PICK j \in 1..Len(jobs[k]) :
          /\ jobs[k][j].live /\ Backs(jobs[k][j], object) /\ AskedFor(k, jobs[k][j])
          /\ Without({"edit"})' => jobs[k][j].spec = object.spec
    BY <1>3, <2>1, <2>3
  <2>5. j \in 1..Len(jobs'[k]) /\ jobs'[k][j] = jobs[k][j] BY DEF JobsGrow
  <2>6. PICK m \in 1..Latest(k) : /\ revisions[k][m].uid = jobs[k][j].owner
                                  /\ revisions[k][m].spec = jobs[k][j].spec
    BY <2>4 DEF AskedFor
  <2>7. m \in 1..n /\ revisions'[k][m] = revisions[k][m] BY <1>1, <1>3
  <2>8. jobs[k][j].owner = object.uid BY <2>4 DEF Backs
  <2>9. Asked(k, n, jobs[k][j].spec)' BY <2>1, <2>4, <2>5, <2>6, <2>7, <2>8 DEF Asked
  <2> QED BY <1>3, <2>1, <2>4, <2>5, <2>9
<1>4. x = k => n \in 2..Latest(k) \/ n = Latest(k) + 1 BY <1>1
<1> QED BY <1>2, <1>3, <1>4

(* The worker decides by a Job of the test's own.                          *)
LEMMA OwnJob ==
  ASSUME TestInv, JobsKept, JobsToldApart, Polls, CachedJob(active).live
  PROVE  CachedJob(active).owner = revisions[active][worker.snap].uid
<1>1. /\ active \in Keys /\ worker.snap \in 1..Latest(active)
      /\ revisions[active][worker.snap].live
  BY SnapshotTyped DEF Polls, TestInv, SnapshotUndecided
<1>2. jobSeen[active] \in 1..Len(jobs[active]) BY <1>1, JobsTyped DEF TestInv
<1>3. JobsOwned BY DEF JobsKept, JobsToldApart, Without
<1> QED BY <1>1, <1>2, <1>3 DEF JobsOwned, BelongsTo, CachedJob

LEMMA DecidedIsBacked ==
  ASSUME TestInv, JobsKept, JobsToldApart, PollFailed \/ ReadsLogs
  PROVE  Backed'
<1>1. /\ Polls /\ active \in Keys /\ worker \in Worker /\ TestTypeOK
      /\ UNCHANGED <<revisions, jobs, active>>
      /\ revisions[active][worker.snap] \in Object
  BY SnapshotTyped
  DEF PollFailed, ReadsLogs, PollReadsLogs, CanRead, Polls, TestInv, runtimeVars, jobVars
<1> SUFFICES ASSUME Obj(active).live
             PROVE  \E j \in 1..Len(jobs[active]) :
                      jobs[active][j].live /\ Backs(jobs[active][j], Written')
  BY <1>1 DEF Backed, Obj, Latest
<1>2. CASE PollFailed
  <2>1. worker'.snap = worker.snap /\ worker'.verdict = "Failure"
    BY <1>1, <1>2 DEF PollFailed, Decide, Worker
  <2>2. /\ Written'.uid = revisions[active][worker.snap].uid
        /\ Written'.status = "Failure"
    BY <1>1, <2>1 DEF Written, Object
  <2>3. CachedJob(active).owner = Written'.uid BY <1>1, <1>2, <2>2, OwnJob DEF PollFailed
  <2>4. jobSeen[active] \in 1..Len(jobs[active]) BY <1>1, JobsTyped
  <2>5. CachedJob(active).live /\ Backs(CachedJob(active), Written')
    BY <1>2, <2>2, <2>3 DEF PollFailed, Backs, BackoffLimit
  <2> QED BY <2>4, <2>5 DEF CachedJob
<1>3. CASE ReadsLogs
  <2> PICK log \in AnyLog :
        PollReadsLogs(log, writeConditionsFromLogs(revisions[active][worker.snap].spec, log))
    BY <1>3 DEF ReadsLogs
  <2>1. CachedJob(active).live /\ CachedJob(active).complete
    BY DEF PollReadsLogs, CanRead, Succeeded
  <2>2. PICK j \in Listed(active) : log \in Printed(jobs[active][j])
    BY DEF PollReadsLogs, CanRead
  <2>3. /\ JobObj(active).live /\ JobObj(active).complete /\ JobObj(active).succeeded = 1
        /\ JobObj(active).owner = revisions[active][worker.snap].uid
        /\ j = Len(jobs[active])
    BY <1>1, <2>1, ReadEnded
  <2>4. log = JobObj(active).log BY <2>2, <2>3 DEF Printed, JobObj
  <2> DEFINE spec == revisions[active][worker.snap].spec
  <2>5. worker' = [worker EXCEPT !.pc = "status", !.verdict = writeConditionsFromLogs(spec, log)]
    BY DEF PollReadsLogs, Decide
  <2> HIDE DEF spec
  <2>6. worker'.snap = worker.snap /\ worker'.verdict = writeConditionsFromLogs(spec, log)
    BY <1>1, <2>5 DEF Worker
  <2>7. writeConditionsFromLogs(spec, log) \in Statuses
    BY ResultsAssumption DEF writeConditionsFromLogs
  <2>8. /\ Written'.uid = revisions[active][worker.snap].uid
        /\ Written'.spec = spec
        /\ Written'.status = writeConditionsFromLogs(spec, log)
    BY <1>1, <2>6, <2>7 DEF Written, Object, spec
  <2>9. Backs(JobObj(active), Written')
    BY <2>3, <2>4, <2>8 DEF Backs, writeConditionsFromLogs
  <2>10. Len(jobs[active]) \in 1..Len(jobs[active])
    <3>1. Len(jobs[active]) \in Nat /\ jobSeen[active] \in 1..Len(jobs[active])
      BY <1>1, JobsTyped
    <3> QED BY <3>1
  <2> QED BY <2>3, <2>9, <2>10 DEF JobObj
<1> QED BY <1>2, <1>3

LEMMA BackedStays ==
  ASSUME TestInv, Backed, JobsGrow, UNCHANGED <<worker, active>>,
         worker.pc = "status" =>
           revisions'[active][worker.snap] = revisions[active][worker.snap],
         worker.pc = "status" /\ Obj(active)'.live => Obj(active).live
  PROVE  Backed'
<1> SUFFICES ASSUME worker.pc = "status", Obj(active)'.live
             PROVE  \E j \in 1..Len(jobs'[active]) :
                      jobs'[active][j].live /\ Backs(jobs'[active][j], Written')
  BY DEF Backed
<1>1. active \in Keys BY PollingHoldsKey
<1>2. Written' = Written BY DEF Written
<1>3. PICK j \in 1..Len(jobs[active]) : jobs[active][j].live /\ Backs(jobs[active][j], Written)
  BY DEF Backed
<1>4. j \in 1..Len(jobs'[active]) /\ jobs'[active][j] = jobs[active][j] BY <1>1 DEF JobsGrow
<1> QED BY <1>2, <1>3, <1>4

(* When the result is written, the Job ran what its test had asked for.    *)
LEMMA BackingAsked ==
  ASSUME TestInv, JobsAsked, JobsToldApart, Backed, worker.pc = "status", Obj(active).live
  PROVE  \E j \in 1..Len(jobs[active]) :
           /\ jobs[active][j].live /\ Backs(jobs[active][j], Written)
           /\ AskedFor(active, jobs[active][j])
           /\ Without({"edit"}) => jobs[active][j].spec = Written.spec
<1>1. PICK j \in 1..Len(jobs[active]) : jobs[active][j].live /\ Backs(jobs[active][j], Written)
  BY DEF Backed
<1>2. /\ active \in Keys /\ worker.snap \in 1..Latest(active)
      /\ revisions[active][worker.snap].live
      /\ Written.spec = revisions[active][worker.snap].spec
  BY SnapshotTyped, WrittenShape DEF TestInv, SnapshotUndecided
<1>3. AskedFor(active, jobs[active][j]) BY <1>1, <1>2 DEF JobsAsked, SpecsAsked
<1>4. ASSUME Without({"edit"}) PROVE jobs[active][j].spec = Written.spec
  <2>1. Unedited BY <1>4 DEF JobsAsked, JobsToldApart, Without
  <2> QED BY <1>2, <1>3, <2>1 DEF AskedFor, Unedited
<1> QED BY <1>1, <1>3, <1>4

LEMMA UserEarned ==
  ASSUME TestInv, JobsGrow, RevisionsStay, faults \subseteq faults', Backed, Earned,
         JobsToldApart', NEW k \in Keys, User(k), UNCHANGED <<jobVars, worker>>
  PROVE  Backed' /\ Earned'
<1>1. RuntimeTypeOK /\ "recreate" \notin faults'
  BY DEF TestInv, TestTypeOK, JobsToldApart, Without
<1>2. UNCHANGED active /\ \A j \in Keys : \A n \in 1..Latest(j) : revisions'[j][n] = revisions[j][n]
  BY <1>1, UserTyped
<1>3. PICK object \in Object :
        Store(k, object) /\ object.status \in {Blank, Obj(k).status}
  BY <1>1, UserStoresOwn
<1>4. Earned' BY <1>1, <1>3, StoredEarned
<1>5. ASSUME worker.pc = "status"
      PROVE  /\ revisions'[active][worker.snap] = revisions[active][worker.snap]
             /\ Obj(active)'.live => Obj(active).live
  BY <1>1, <1>2, <1>5, SnapshotTyped, UserLeavesGone
<1> QED BY <1>2, <1>4, <1>5, BackedStays

LEMMA NextEarned ==
  ASSUME TestInv, JobsAsked, JobsToldApart, JobsToldApart', Backed, Earned, [Next]_testVars
  PROVE  Backed' /\ Earned'
<1>1. TestTypeOK /\ RuntimeTypeOK /\ JobsKept /\ RevisionsStay /\ faults \subseteq faults'
  BY NextRevisions, FaultsAccumulate DEF TestInv, TestTypeOK, JobsAsked
<1>2. JobsGrow
  <2>1. ReadsLogs \/ Finishes \/ UNCHANGED testVars =>
          UNCHANGED jobs \/ \E next \in {"idle", "config"} : updateStatus(next)
    BY DEF ReadsLogs, PollReadsLogs, Finishes, testVars, jobVars
  <2> QED BY <1>1, <2>1, WorkerGrows, EnvironmentGrows DEF Next, Reconcile
<1>3. UNCHANGED revisions => Earned' BY <1>1, <1>2, UnchangedEarned
<1>4. ASSUME NEW k \in Keys, Begin(k) PROVE Backed' /\ Earned'
  <2>1. worker'.pc # "status" /\ UNCHANGED revisions
    BY <1>1, <1>4 DEF Begin, BeginSkips, BeginFindsJob, BeginCreatesJob, BeginFails, QueueGet,
                      StartPolling, Idle, TestTypeOK
  <2> QED BY <1>3, <2>1 DEF Backed
<1>5. CASE PollFailed \/ ReadsLogs
  <2>1. UNCHANGED revisions BY <1>5 DEF PollFailed, ReadsLogs, PollReadsLogs, runtimeVars
  <2> QED BY <1>1, <1>3, <1>5, <2>1, DecidedIsBacked
<1>6. CASE PollMissing \/ PollUnfinished \/ PollLogsFail \/ PollPanics \/ Crash
  <2>1. UNCHANGED revisions
    BY <1>6 DEF PollMissing, PollUnfinished, PollLogsFail, PollPanics, Crash, Restart,
                RuntimeRestarts, runtimeVars
  <2>2. worker'.pc # "status"
    <3>1. CASE PollMissing
      <4>1. worker \in Worker /\ worker.sec # 200 BY <1>1 DEF TestTypeOK, JobsKept
      <4> QED BY <3>1, <4>1 DEF PollMissing, Polls, Worker
    <3> QED BY <1>6, <3>1 DEF PollUnfinished, PollLogsFail, PollPanics, Crash, Restart, Idle
  <2> QED BY <1>3, <2>1, <2>2 DEF Backed
<1>7. CASE Finishes
  <2>1. worker.pc = "status" /\ worker'.pc # "status"
    BY <1>7 DEF Finishes, updateStatus, Idle
  <2>2. CASE UNCHANGED revisions BY <1>3, <2>1, <2>2 DEF Backed
  <2>3. CASE worker.snap = Latest(active) /\ UNCHANGED faults /\ Store(active, Written)
    <3>1. active \in Keys /\ Written \in Object BY <2>1, SnapshotTyped, WrittenShape
    <3>2. Obj(active).live BY <2>1, <2>3 DEF TestInv, SnapshotUndecided, Obj
    <3>3. Without({"edit"})' <=> Without({"edit"}) BY <2>3 DEF Without
    <3>4. \E j \in 1..Len(jobs[active]) :
            /\ jobs[active][j].live /\ Backs(jobs[active][j], Written)
            /\ AskedFor(active, jobs[active][j])
            /\ Without({"edit"})' => jobs[active][j].spec = Written.spec
      BY <2>1, <3>2, <3>3, BackingAsked
    <3>5. Earned'
      <4> SUFFICES ASSUME NEW k \in Keys, k = active, NEW object \in Object, object = Written
                   PROVE  Earned'
        BY <3>1
      <4> QED BY <1>1, <1>2, <2>3, <3>4, StoredEarned
    <3> QED BY <2>1, <3>5 DEF Backed
  <2> QED BY <1>7, <2>2, <2>3 DEF Finishes, updateStatus, WriteStatus, Written
<1>8. CASE UNCHANGED <<revisions, active, worker>>
  BY <1>2, <1>3, <1>8, BackedStays DEF Obj, Latest
<1>9. ASSUME NEW k \in Keys, Environment(k) PROVE Backed' /\ Earned'
  <2>1. CASE User(k) /\ UNCHANGED <<jobVars, worker>> BY <1>1, <1>2, <2>1, UserEarned
  <2>2. CASE Informer(k) \/ Cluster(k)
    BY <1>8, <1>9, <2>2
    DEF Environment, Informer, InformerReceives, HandlerEnqueues, Resync, ResyncLags, Cluster,
        runtimeVars
  <2> QED BY <1>9, <2>1, <2>2 DEF Environment
<1> QED BY <1>4, <1>5, <1>6, <1>7, <1>8, <1>9
        DEF Next, Reconcile, PollWaits, testVars, runtimeVars

(* A reported result is earned: unless a test is made again under its name *)
(* or its Job is deleted by hand, a Success or Failure is backed by a Job  *)
(* launched for that very test, by its log and by the string the test      *)
(* asked for when the result was written; and that Job ran a spec the test *)
(* had asked for before, the one beside the result unless it was edited.   *)
THEOREM ResultsAreEarned == Spec => []ResultEarned
<1> DEFINE Inv == TestInv /\ JobsAsked /\ (JobsToldApart => Backed /\ Earned)
<1>1. Init => Inv
  <2> SUFFICES ASSUME Init PROVE Inv OBVIOUS
  <2>1. \A k \in Keys : Latest(k) = 1 /\ Len(jobs[k]) = 1 /\ ~jobs[k][1].live
    BY DEF Init, TestInit, RuntimeInit, Latest, NoJob
  <2>2. Backed BY DEF Init, TestInit, Idle, Backed
  <2>3. Earned
    <3> SUFFICES ASSUME NEW k \in Keys, NEW n \in 2..Latest(k) PROVE FALSE BY DEF Earned
    <3>1. n \in 2..1 BY <2>1
    <3> QED BY <3>1
  <2>4. SpecsAsked BY <2>1 DEF SpecsAsked
  <2>5. Unedited BY InitUnedited DEF Init, TestInit
  <2> QED BY <2>2, <2>3, <2>4, <2>5, InitInv, InitJobs DEF Init, JobsAsked
<1>2. Inv /\ [Next]_testVars => Inv'
  <2> SUFFICES ASSUME Inv, [Next]_testVars PROVE Inv' OBVIOUS
  <2>1. JobsToldApart' => JobsToldApart BY FaultsAccumulate DEF JobsToldApart, Without
  <2> QED BY <2>1, NextKeeps, NextKept, NextEarned
<1>3. Inv => ResultEarned BY DEF ResultEarned, Earned
<1> QED BY <1>1, <1>2, <1>3, PTL DEF Spec
=============================================================================
