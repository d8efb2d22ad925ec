----------------------------- MODULE CurlTest -----------------------------
(***************************************************************************)
(* The CurlTest controller: one Job per test, a verdict by whether the log *)
(* holds the string the test looks for, and the verdict in the status.     *)
(***************************************************************************)
EXTENDS TestJob

(* A log is the set of specs whose string is in one of its words.          *)
ASSUME LogsAssumption == NoLog = {} /\ Logs \subseteq SUBSET Specs

(* Success if some word of the log contains LookForString.                 *)
alwaysSuccess(spec, log) == "Success"   \* mutant: as LoadTest does it
writeConditionsFromLogs(spec, log) == IF spec \in log THEN "Success" ELSE "Failure"

ReadsLogs ==
  active # NoKey /\ \E log \in AnyLog :
    PollReadsLogs(log, writeConditionsFromLogs(revisions[active][worker.snap].spec, log))

Finishes == updateStatus("idle")

Reconcile == (\E k \in Keys : Begin(k)) \/ PollWaits \/ ReadsLogs \/ Finishes

Next == Reconcile \/ Crash \/ \E k \in Keys : Environment(k)

Init == TestInit
Spec == Init /\ [][Next]_testVars

(* Watches deliver, Jobs end (a curl is bounded in time), the queue is     *)
(* first in, first out, and the worker's steps are not suspended.          *)
Fairness ==
  /\ WF_testVars(PollWaits \/ ReadsLogs \/ Finishes)
  /\ \A k \in Keys :
       /\ WF_testVars(InformerReceives(k) /\ UNCHANGED <<jobVars, worker>>)
       /\ WF_testVars(HandlerEnqueues(k) /\ UNCHANGED <<jobVars, worker>>)
       /\ WF_testVars(Resync(k) /\ UNCHANGED <<jobVars, worker>>)
       /\ WF_testVars(Cluster(k) /\ UNCHANGED faults)
       /\ SF_testVars(Begin(k))
FairSpec == Spec /\ Fairness

TypeOK == TestTypeOK

(* A result is about this incarnation of the test: a Success is backed by  *)
(* a Job launched for it whose log held the string the test asked for when *)
(* the result was written, a Failure by one that failed or lacked it.      *)
Backs(job, revision) ==
  /\ job.owner = revision.uid
  /\ \/ /\ revision.status = "Success"
        /\ job.complete /\ revision.spec \in job.log
     \/ /\ revision.status = "Failure"
        /\ job.failed > BackoffLimit \/ (job.complete /\ revision.spec \notin job.log)

(* What that Job ran, the test has asked for; but if the test was edited,  *)
(* the Job launched for the old spec is kept, and its log is judged by the *)
(* string of the new one.                                                  *)
Asked(k, n, spec) ==
  /\ \E m \in 1..n : revisions[k][m].uid = revisions[k][n].uid /\ revisions[k][m].spec = spec
  /\ Without({"edit"}) => spec = revisions[k][n].spec
Reported(k, n) == revisions[k][n].status # Blank /\ revisions[k][n - 1].status = Blank
ResultEarned == JobsToldApart =>
  \A k \in Keys : \A n \in 2..Latest(k) : Reported(k, n) =>
    \E j \in 1..Len(jobs[k]) :
      Backs(jobs[k][j], revisions[k][n]) /\ Asked(k, n, jobs[k][j].spec)
=============================================================================
