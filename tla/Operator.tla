------------------------------ MODULE Operator ------------------------------
(***************************************************************************)
(* The TestRun and the CurlTest controller together, in one process and    *)
(* over one set of CurlTests: those that the runs create, which the run    *)
(* controller reads through the same cache the test controller works from. *)
(*                                                                         *)
(* TestRun's children are what it can see of these tests: that one exists, *)
(* who owns it, StopOnFailure and the result.  Here it is not assumed how  *)
(* they come to a result: their controller and its Jobs see to it.         *)
(***************************************************************************)
EXTENDS TestRun

CONSTANTS
  TestFaults,       \* disturbances of the test controller
  MaxJobRevisions,  \* bound, see TestJob
  MaxUid            \* bound: the incarnations of a run

(* What a run asks of a test is never mistaken for nothing.                *)
ASSUME NoSpecAssumption == NoSpec \notin [owner: Nat, stop: BOOLEAN]

VARIABLES
  tests,                                           \* the CurlTests
  testNotify, testQueue, testActive, testWorker,   \* their controller
  testFaults, jobs, jobSeen, pods, podSeen

testRest == <<testNotify, testQueue, testActive, testWorker, testFaults,
              jobs, jobSeen, pods, podSeen>>
testVars == <<tests, childSeen, testRest>>
allVars  == <<vars, tests, testRest>>

(* What a run sees of a test, in one revision of it and in all of them.    *)
View(test) ==
  [live |-> test.live, result |-> test.status,
   owner |-> IF test.spec = NoSpec THEN 0 ELSE test.spec.owner,
   stop |-> test.spec # NoSpec /\ test.spec.stop]
Views == [n \in Names |-> [i \in 1..Len(tests[n]) |-> View(tests[n][i])]]

(* A log holds what any of the tests looks for, or nothing of it.          *)
Orders == [owner: 1..MaxUid, stop: BOOLEAN]

C == INSTANCE CurlTest WITH
  Keys <- Names, Specs <- Orders, Statuses <- {"none", "Success", "Failure"}, Blank <- "none",
  Faults <- TestFaults, Logs <- {{}, Orders}, NoLog <- {},
  revisions <- tests, seen <- childSeen, notify <- testNotify, queue <- testQueue,
  active <- testActive, worker <- testWorker, faults <- testFaults

OperatorInit == Init /\ C!Init

-----------------------------------------------------------------------------
(* The run controller.  What it creates is a CurlTest it owns.             *)

newCurlTestCR(n, run, step) ==
  [live |-> TRUE, uid |-> C!Latest(n) + 1, status |-> "none",
   spec |-> [owner |-> run.uid, stop |-> step.stop]]

RunWorks ==
  /\ Proceed
  /\ IF children' = children
     THEN UNCHANGED tests
     ELSE C!Store(Name, newCurlTestCR(Name, Instance, Step))
  /\ UNCHANGED testRest

RunBegins(k) == Begin(k) /\ UNCHANGED <<tests, testRest>>

(* The watches; the resync is left to the runs of each controller alone.   *)
Watch(k)     == InformerReceives(k) \/ HandlerEnqueues(k)
TestWatch(n) == C!InformerReceives(n) \/ C!HandlerEnqueues(n)

RunChanges(step) == step /\ UNCHANGED <<childVars, worker, tests, testRest>>

-----------------------------------------------------------------------------
(* The test controller, its Jobs and the shared cache of CurlTests.        *)

TestStep(step) == step /\ UNCHANGED <<runtimeVars, worker>> /\ children' = Views'

TestWorks ==
  TestStep(\/ C!PollMissing \/ C!PollFailed \/ C!PollUnfinished \/ C!PollLogsFail
           \/ C!ReadsLogs \/ C!Finishes)

TestBegins(n) == TestStep(C!Begin(n))

TestInformer(n, step) ==
  TestStep(step /\ UNCHANGED <<testWorker, jobs, jobSeen, pods, podSeen>>)

(* The garbage collector takes the test of a run that is gone.             *)
TestCollected(n) ==
  /\ ChildCollected(n)
  /\ C!Store(n, [C!Obj(n) EXCEPT !.live = FALSE])
  /\ UNCHANGED <<runtimeVars, worker, testRest>>

(* One process: it dies as a whole, also of a panic in the test controller.*)
Dies ==
  /\ C!Crash \/ C!PollPanics
  /\ Crash

(* The two controllers share the bound on disturbances.                    *)
OperatorNext ==
  /\ \/ RunWorks \/ TestWorks \/ Dies
     \/ \E k \in Keys : RunBegins(k) \/ RunChanges(User(k) \/ Watch(k))
     \/ \E n \in Names :
          \/ TestBegins(n) \/ TestCollected(n)
          \/ TestInformer(n, TestWatch(n)) \/ TestStep(C!Cluster(n))
  /\ Cardinality(faults' \cup testFaults') <= MaxFaults

OperatorSpec == OperatorInit /\ [][OperatorNext]_allVars

(* As for the two alone, but without the resync.                           *)
OperatorFairness ==
  /\ WF_allVars(RunWorks)
  /\ WF_allVars(TestWorks \/ (C!PollPanics /\ Crash))
  /\ WF_allVars(\E k \in Keys : RunChanges(InformerReceives(k)))
  /\ WF_allVars(\E n \in Names : TestInformer(n, C!InformerReceives(n)))
  /\ WF_allVars(\E n \in Names : TestStep(C!Cluster(n) /\ UNCHANGED testFaults))
  /\ \A k \in Keys : WF_allVars(RunChanges(HandlerEnqueues(k))) /\ SF_allVars(RunBegins(k))
  /\ \A n \in Names :
       /\ WF_allVars(TestInformer(n, C!HandlerEnqueues(n)))
       /\ SF_allVars(TestBegins(n))
FairOperator == OperatorSpec /\ OperatorFairness

-----------------------------------------------------------------------------
(* The CurlTests under their controller are the children that TestRun      *)
(* takes for granted: whatever happens to Jobs, pods, caches and the       *)
(* process, every step of theirs is one TestRun reckons with.              *)
RunSeesTests == Spec

(* The load of a run comes one test at a time: no two Jobs of its tests    *)
(* run side by side, over restarts, retries and stale caches.  Where tests *)
(* may overlap (see OneAtATime), so may Jobs; and a Job deleted by hand may*)
(* be made again behind its result by a resync, which is left out here.    *)
Untouched == Without({"edit", "childdelete", "recreate"}) /\ "jobdelete" \notin testFaults
RunningJobs(k) == {n \in Names : n[1] = k /\ C!Running(C!JobObj(n))}
LoadIsSerial ==
  Untouched => \A k \in Keys : Obj(k).live => Cardinality(RunningJobs(k)) <= 1

(* A run that reports Finished puts no more load on anything, unless a     *)
(* test of it could not be created.                                        *)
FinishedIsQuiet ==
  Untouched /\ Without({"createfails"}) =>
    \A k \in Keys : Obj(k).live /\ Obj(k).status = "Finished" => RunningJobs(k) = {}
=============================================================================
