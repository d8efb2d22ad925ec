------------------------------ MODULE TestJob ------------------------------
(***************************************************************************)
(* The part of Reconcile that the CurlTest and the LoadTest controllers    *)
(* share: one Kubernetes Job per test, launched, polled until it ends, and *)
(* read through the logs of its pod.  The two controllers differ in the    *)
(* verdict they draw from a log and in what follows the status write.      *)
(*                                                                         *)
(* Jobs live in the API server as a log of revisions, read through a       *)
(* lagging cache, as the custom resources are.  What a log is, is for the  *)
(* controllers to say.                                                     *)
(***************************************************************************)
EXTENDS Runtime

CONSTANTS
  Logs,            \* what a finished pod may have printed
  NoLog,           \* the log of a pod that has not finished: nothing
  MaxJobRevisions  \* bound: with so many the garbage collector rests

ASSUME ResultsAssumption == {"Success", "Failure"} \subseteq Statuses \ {Blank}

VARIABLES
  jobs,      \* per test, every revision of the Job that carries its name
  jobSeen,   \* the last of them in the cache
  pods,      \* the ids of the Jobs whose pod exists
  podSeen,   \* what a List of the cached pods returns
  worker     \* the local variables of Reconcile

jobVars == <<jobs, jobSeen, pods, podSeen>>
testVars == <<runtimeVars, jobVars, worker>>

BackoffLimit == 0
AnyLog == Logs \cup {NoLog}

Job == [live: BOOLEAN, id: Nat, owner: Nat, spec: Specs \cup {NoSpec},
        succeeded: 0..1, failed: 0..1, complete: BOOLEAN, log: AnyLog]
NoJob == [live |-> FALSE, id |-> 0, owner |-> 0, spec |-> NoSpec,
          succeeded |-> 0, failed |-> 0, complete |-> FALSE, log |-> NoLog]

Worker == [pc: {"idle", "poll", "status", "config", "metrics"}, snap: Nat,
           sec: {10, 30, 60, 200}, verdict: Statuses]
Idle == [pc |-> "idle", snap |-> 0, sec |-> 10, verdict |-> Blank]

TestTypeOK ==
  /\ RuntimeTypeOK
  /\ jobs \in [Keys -> Seq(Job)]
  /\ jobSeen \in [Keys -> Nat]
  /\ \A k \in Keys : jobSeen[k] \in 1..Len(jobs[k])
  /\ pods \in [Keys -> SUBSET Nat]
  /\ podSeen \in [Keys -> SUBSET Nat]
  /\ worker \in Worker
  /\ worker.pc = "idle" <=> active = NoKey
  /\ active # NoKey => worker.snap \in 1..seen[active]

TestInit ==
  /\ RuntimeInit
  /\ jobs = [k \in Keys |-> <<NoJob>>]
  /\ jobSeen = [k \in Keys |-> 1]
  /\ pods = [k \in Keys |-> {}]
  /\ podSeen = [k \in Keys |-> {}]
  /\ worker = Idle

JobObj(k)    == jobs[k][Len(jobs[k])]
CachedJob(k) == jobs[k][jobSeen[k]]
Running(job) == job.live /\ job.succeeded = 0 /\ job.failed = 0

StoreJob(k, job) == jobs' = [jobs EXCEPT ![k] = Append(@, job)]

(* The Job for a copy cr of the test: it belongs to that incarnation, and  *)
(* its command is made from that spec.                                     *)
newJobForCR(k, cr) ==
  [live |-> TRUE, id |-> Len(jobs[k]) + 1, owner |-> cr.uid, spec |-> cr.spec,
   succeeded |-> 0, failed |-> 0, complete |-> FALSE, log |-> NoLog]

-----------------------------------------------------------------------------
(* The cluster: the Job controller runs the pod, the caches follow, the    *)
(* garbage collector takes the Job of a test that is gone and, later, the  *)
(* pod of a Job that is gone.                                              *)

HasPod(k) == JobObj(k).id \in pods[k]

PodStarts(k) ==
  /\ Running(JobObj(k))
  /\ ~HasPod(k)
  /\ pods' = [pods EXCEPT ![k] = @ \cup {JobObj(k).id}]
  /\ UNCHANGED <<jobs, jobSeen, podSeen>>

JobSucceeds(k, log) ==
  /\ Running(JobObj(k))
  /\ HasPod(k)
  /\ StoreJob(k, [JobObj(k) EXCEPT !.succeeded = 1, !.complete = TRUE, !.log = log])
  /\ UNCHANGED <<jobSeen, pods, podSeen>>

JobFails(k) ==
  /\ Running(JobObj(k))
  /\ HasPod(k)
  /\ StoreJob(k, [JobObj(k) EXCEPT !.failed = BackoffLimit + 1])
  /\ UNCHANGED <<jobSeen, pods, podSeen>>

JobSeen(k) ==
  /\ jobSeen[k] < Len(jobs[k])
  /\ jobSeen' = [jobSeen EXCEPT ![k] = @ + 1]
  /\ UNCHANGED <<jobs, pods, podSeen>>

PodSeen(k) ==
  /\ podSeen[k] # pods[k]
  /\ podSeen' = [podSeen EXCEPT ![k] = pods[k]]
  /\ UNCHANGED <<jobs, jobSeen, pods>>

JobRemoved(k) ==
  /\ JobObj(k).live
  /\ StoreJob(k, [JobObj(k) EXCEPT !.live = FALSE])
  /\ UNCHANGED <<jobSeen, pods, podSeen>>

GarbageCollected(k) ==
  /\ ~(Obj(k).live /\ Obj(k).uid = JobObj(k).owner)
  /\ Len(jobs[k]) < MaxJobRevisions
  /\ JobRemoved(k)

PodCollected(k) ==
  /\ \E id \in pods[k] :
       /\ ~(JobObj(k).live /\ JobObj(k).id = id)
       /\ pods' = [pods EXCEPT ![k] = @ \ {id}]
  /\ UNCHANGED <<jobs, jobSeen, podSeen>>

(* Disturbances: the Job is deleted by hand; its pod is lost with its log; *)
(* the count of succeeded pods is published before the Complete condition. *)
JobDeleted(k) == Disturb("jobdelete") /\ JobRemoved(k)

PodLost(k) ==
  /\ JobObj(k).live /\ ~Running(JobObj(k))
  /\ HasPod(k)
  /\ Disturb("podloss")
  /\ pods' = [pods EXCEPT ![k] = @ \ {JobObj(k).id}]
  /\ UNCHANGED <<jobs, jobSeen, podSeen>>

JobSucceedsEarly(k, log) ==
  /\ Running(JobObj(k))
  /\ HasPod(k)
  /\ Disturb("latecondition")
  /\ StoreJob(k, [JobObj(k) EXCEPT !.succeeded = 1, !.log = log])
  /\ UNCHANGED <<jobSeen, pods, podSeen>>

JobCompletes(k) ==
  /\ JobObj(k).live /\ JobObj(k).succeeded = 1 /\ ~JobObj(k).complete
  /\ StoreJob(k, [JobObj(k) EXCEPT !.complete = TRUE])
  /\ UNCHANGED <<jobSeen, pods, podSeen>>

Cluster(k) ==
  \/ /\ \/ PodStarts(k)
        \/ \E log \in Logs : JobSucceeds(k, log)
        \/ JobFails(k)
        \/ JobCompletes(k)
        \/ JobSeen(k)
        \/ PodSeen(k)
        \/ GarbageCollected(k)
        \/ PodCollected(k)
     /\ UNCHANGED <<runtimeVars, worker>>
  \/ /\ JobDeleted(k) \/ PodLost(k) \/ \E log \in Logs : JobSucceedsEarly(k, log)
     /\ UNCHANGED <<revisions, seen, notify, queue, active, worker>>

-----------------------------------------------------------------------------
(* The worker, from taking a key to the status write.                      *)

(* The test is gone, or its result is already there.                       *)
BeginSkips(k) ==
  /\ active = NoKey
  /\ k \in queue
  /\ ~Cached(k).live \/ Cached(k).status # Blank
  /\ queue' = queue \ {k}
  /\ UNCHANGED <<revisions, seen, notify, active, faults, jobVars, worker>>

StartPolling(k) == worker' = [Idle EXCEPT !.pc = "poll", !.snap = seen[k]]

(* A Job of that name is in the cache.                                     *)
BeginLeavesJob(k) ==           \* mutant: "Job already exists - don't requeue"
  /\ active = NoKey
  /\ k \in queue
  /\ Cached(k).live /\ Cached(k).status = Blank
  /\ CachedJob(k).live
  /\ queue' = queue \ {k}
  /\ UNCHANGED <<revisions, seen, notify, active, faults, jobVars, worker>>
BeginFindsJob(k) ==
  /\ QueueGet(k)
  /\ Cached(k).live /\ Cached(k).status = Blank
  /\ CachedJob(k).live
  /\ StartPolling(k)
  /\ UNCHANGED <<revisions, seen, notify, faults, jobVars>>

BeginGeneratesJob(k) ==        \* mutant: the Job gets a generated name
  /\ QueueGet(k)
  /\ Cached(k).live /\ Cached(k).status = Blank
  /\ ~CachedJob(k).live
  /\ StoreJob(k, newJobForCR(k, Cached(k)))
  /\ StartPolling(k)
  /\ UNCHANGED <<revisions, seen, notify, faults, jobSeen, pods, podSeen>>
BeginCreatesJob(k) ==
  /\ QueueGet(k)
  /\ Cached(k).live /\ Cached(k).status = Blank
  /\ ~CachedJob(k).live
  /\ ~JobObj(k).live
  /\ StoreJob(k, newJobForCR(k, Cached(k)))
  /\ StartPolling(k)
  /\ UNCHANGED <<revisions, seen, notify, faults, jobSeen, pods, podSeen>>

(* Create is refused because the cache is behind: the key is taken and put *)
(* back.  Or the request fails, with or without effect.                    *)
BeginFails(k) ==
  /\ active = NoKey
  /\ k \in queue
  /\ Cached(k).live /\ Cached(k).status = Blank
  /\ ~CachedJob(k).live
  /\ \/ JobObj(k).live /\ UNCHANGED <<faults, jobs>>
     \/ /\ Disturb("createfails")
        /\ \/ UNCHANGED jobs
           \/ ~JobObj(k).live /\ StoreJob(k, newJobForCR(k, Cached(k)))
  /\ UNCHANGED <<revisions, seen, notify, queue, active, jobSeen, pods, podSeen, worker>>

Begin(k) == BeginSkips(k) \/ BeginFindsJob(k) \/ BeginCreatesJob(k) \/ BeginFails(k)

Polls == worker.pc = "poll"

(* How the wait for a missing Job advances.                                *)
SleepAfter(sec) == CASE sec = 10 -> 30
                     [] sec = 25 -> 60
                     [] sec = 60 -> 200
                     [] OTHER    -> sec

Decide(verdict) == worker' = [worker EXCEPT !.pc = "status", !.verdict = verdict]

PollMissing ==
  /\ Polls
  /\ ~CachedJob(active).live
  /\ IF worker.sec = 200
     THEN Decide("Failure")
     ELSE worker' = [worker EXCEPT !.sec = SleepAfter(@)]
  /\ UNCHANGED <<runtimeVars, jobVars>>

PollFailed ==
  /\ Polls
  /\ CachedJob(active).live
  /\ CachedJob(active).failed = BackoffLimit + 1
  /\ Decide("Failure")
  /\ UNCHANGED <<runtimeVars, jobVars>>

Succeeded(job) == job.live /\ job.failed # BackoffLimit + 1 /\ job.succeeded = 1

(* Succeeded but without the Complete condition: Reconcile just returns.   *)
PollUnfinished ==
  /\ Polls
  /\ Succeeded(CachedJob(active)) /\ ~CachedJob(active).complete
  /\ Done
  /\ worker' = Idle
  /\ UNCHANGED <<revisions, seen, notify, faults, jobVars>>

(* The first pod of the list may be any that has the name for its label:   *)
(* each stands here for the last revision of its own Job.                  *)
Listed(k) ==
  {j \in 1..Len(jobs[k]) :
     /\ jobs[k][j].id \in podSeen[k] \cap pods[k]
     /\ \A i \in (j + 1)..Len(jobs[k]) : jobs[k][i].id # jobs[k][j].id}

(* The pod of a Job that did not succeed may have printed anything.        *)
Printed(job) == IF job.succeeded = 1 THEN {job.log} ELSE AnyLog

(* The log of the first pod in the list, a verdict on it.                  *)
CanRead(log) ==
  /\ Polls
  /\ Succeeded(CachedJob(active)) /\ CachedJob(active).complete
  /\ \E j \in Listed(active) : log \in Printed(jobs[active][j])

PollReadsLogs(log, verdict) ==
  /\ CanRead(log)
  /\ Decide(verdict)
  /\ UNCHANGED <<runtimeVars, jobVars>>

(* That pod is gone, or has no log because it never ran, or it just fails. *)
PollLogsFail ==
  /\ Polls
  /\ Succeeded(CachedJob(active)) /\ CachedJob(active).complete
  /\ podSeen[active] # {}
  /\ \/ podSeen[active] \ pods[active] # {} /\ UNCHANGED faults
     \/ (\E j \in Listed(active) : jobs[active][j].succeeded = 0) /\ UNCHANGED faults
     \/ Disturb("logsfail")
  /\ Requeue
  /\ worker' = Idle
  /\ UNCHANGED <<revisions, seen, notify, jobVars>>

(* The process dies and starts over; Items[0] of an empty list kills it.   *)
Restart ==
  /\ RuntimeRestarts
  /\ jobSeen' = [k \in Keys |-> Len(jobs[k])]
  /\ podSeen' = pods
  /\ worker' = Idle
  /\ UNCHANGED <<jobs, pods>>

PollPanics ==
  /\ Polls
  /\ Succeeded(CachedJob(active)) /\ CachedJob(active).complete
  /\ podSeen[active] = {}
  /\ Restart
  /\ UNCHANGED faults

Crash == Disturb("crash") /\ Restart

(* updateStatus, and where Reconcile goes from there.                      *)
updateStatus(next) ==
  /\ worker.pc = "status"
  /\ WriteStatus(active, worker.snap, worker.verdict)
  /\ IF next = "idle"
     THEN active' = NoKey /\ worker' = Idle
     ELSE UNCHANGED active /\ worker' = [worker EXCEPT !.pc = next]
  /\ UNCHANGED <<seen, notify, queue, jobVars>>

Environment(k) ==
  \/ (User(k) \/ Informer(k)) /\ UNCHANGED <<jobVars, worker>>
  \/ Cluster(k)

PollWaits == PollMissing \/ PollFailed \/ PollUnfinished \/ PollLogsFail \/ PollPanics

-----------------------------------------------------------------------------
(* What both kinds of test promise.                                        *)

Decided(k) == Obj(k).live /\ Obj(k).status # Blank

(* Seen from outside, a test is asked for, gets one result and is perhaps  *)
(* withdrawn: all the rest, Jobs, copies, retries, restarts, changes       *)
(* nothing of how it stands.                                               *)
Standing(k) == IF Obj(k).live THEN Obj(k).status ELSE "missing"
Outside == INSTANCE TestResult WITH
  Results <- Statuses \ {Blank}, Pending <- Blank, Missing <- "missing",
  test <- [k \in Keys |-> Standing(k)]
OneResult == Outside!Spec

(* An undecided test is never forgotten: its key is queued or about to be, *)
(* a change of it is still to arrive, or the worker is at it with a copy   *)
(* that is the latest one.  No resync is needed for it to be worked on,    *)
(* unless a status write failed by itself or Complete came late.           *)
Remembered(k) ==
  \/ k \in queue \cup notify
  \/ seen[k] < Latest(k)
  \/ active = k /\ worker.pc \in {"poll", "status"} /\ worker.snap = Latest(k)
NoneForgotten == \A k \in Keys : Obj(k).live /\ Obj(k).status = Blank => Remembered(k)
NoLostTest == Without({"statusfails", "latecondition"}) => NoneForgotten

(* A test puts load on its target once: as long as it exists, no retry,    *)
(* restart or stale cache launches a second Job for it, unless somebody    *)
(* deleted the first.                                                      *)
Launches(k, uid) ==
  {n \in 1..Len(jobs[k]) : jobs[k][n].id = n /\ jobs[k][n].owner = uid}
OneJob == Without({"jobdelete"}) =>
  \A k \in Keys : Obj(k).live => Cardinality(Launches(k, Obj(k).uid)) <= 1

(* The worker goes by the Job in its cache, which may be gone, and reads   *)
(* the log of any pod of that name.  They are of the same Job unless a     *)
(* test is made again under its name, or a Job is deleted by hand and made *)
(* again: its old pod may still be there and be the first of the list.     *)
JobsToldApart == Without({"recreate", "jobdelete"})

(* Every test gets its result, or is deleted.  This takes for granted that *)
(* no Job or pod is removed, be it with another test: the worker may then  *)
(* wait for ever, or panic again and again.                                *)
EveryTestDecided ==
  \A k \in Keys : Obj(k).live ~>
    (~Obj(k).live \/ Decided(k) \/ ~Without({"delete", "jobdelete", "podloss"}))

(* The wait for a Job that is not there ends, as it is given up after five *)
(* minutes.                                                                *)
AwaitsJob == Polls /\ ~CachedJob(active).live
MissingJobIsGivenUp == AwaitsJob ~> ~AwaitsJob
=============================================================================
