----------------------------- MODULE LoadTest -----------------------------
(***************************************************************************)
(* The LoadTest controller: as CurlTest, but a finished load is a Success  *)
(* whatever it measured, and after the status write the measurement is     *)
(* filed in the shared ConfigMap fortio-data-dir and in /tmp/metrics.      *)
(* Reading a log that ends too early kills the process, before the status  *)
(* write or after it; the log is read again when the process is back.      *)
(***************************************************************************)
EXTENDS TestJob, LoadLog

ASSUME LogsAssumption == NoLog = <<>> /\ Logs \subseteq Seq(STRING)

VARIABLES
  config,      \* fortio-data-dir: every revision of its set of entries
  configSeen,  \* the last of them in the cache
  metrics,     \* the test whose numbers /tmp/metrics holds, or NoKey
  logs         \* the log that Reconcile has read

configVars == <<config, configSeen, metrics, logs>>
vars == <<testVars, configVars>>

(* An entry is named after the test and the second it was written at; one  *)
(* of the same name is replaced.                                           *)
Entry == [test: Keys \cup {NoKey}, at: Nat]

TypeOK ==
  /\ TestTypeOK
  /\ config \in Seq(SUBSET Entry)
  /\ configSeen \in 1..Len(config)
  /\ metrics \in Keys \cup {NoKey}
  /\ logs \in AnyLog

Init ==
  /\ TestInit
  /\ config = <<{}>>
  /\ configSeen = 1
  /\ metrics = NoKey
  /\ logs = NoLog

Data == config[Len(config)]
EntryAlone(data, test) ==      \* mutant: the map is made anew
  config' = Append(config, {[test |-> test, at |-> Len(config)]})
(* A write is in a second of its own, or in that of another of its test.   *)
Seconds(data, test) == {Len(config)} \cup {entry.at : entry \in {e \in data : e.test = test}}
AddEntry(data, test) == \E at \in Seconds(data, test) :
  config' = Append(config, data \cup {[test |-> test, at |-> at]})

-----------------------------------------------------------------------------
(* The ConfigMap is also edited by hand; its cache follows.                *)

ConfigEdited ==
  /\ Disturb("configedit")
  /\ AddEntry(Data, NoKey)
  /\ UNCHANGED <<revisions, seen, notify, queue, active, jobVars, worker, configSeen, metrics, logs>>

ConfigSeen ==
  /\ configSeen < Len(config)
  /\ configSeen' = configSeen + 1
  /\ UNCHANGED <<testVars, config, metrics, logs>>

-----------------------------------------------------------------------------
(* A log that can be parsed makes the test a Success.                      *)
ReadsAnyLog ==                 \* mutant: recover() around the parser
  /\ active # NoKey
  /\ \E log \in AnyLog : PollReadsLogs(log, "Success") /\ logs' = log
  /\ UNCHANGED <<config, configSeen, metrics>>
ReadsLogs ==
  /\ active # NoKey
  /\ \E log \in AnyLog :
       /\ ~ReadPanics(log)
       /\ PollReadsLogs(log, "Success")
       /\ logs' = log
  /\ UNCHANGED <<config, configSeen, metrics>>

(* One that cannot kills the process before anything is reported.          *)
ReadingPanics ==
  /\ active # NoKey
  /\ \E log \in AnyLog : CanRead(log) /\ ReadPanics(log)
  /\ Restart
  /\ UNCHANGED faults

(* Only a test with a log goes on to file it.                              *)
ReportsOnly == updateStatus("idle")     \* mutant: return after the status
ReportsAndFiles == updateStatus("config") \* mutant: file failures too
Reports == updateStatus(IF worker.verdict = "Success" THEN "config" ELSE "idle")

(* Read the cached ConfigMap, add an entry with the JSON of the log, write *)
(* the whole map back; a refusal or an error is logged.                    *)
updateConfigMap ==
  /\ worker.pc = "config"
  /\ ~SlicePanics(logs)
  /\ \/ /\ configSeen = Len(config)
        /\ AddEntry(config[configSeen], active)
        /\ UNCHANGED faults
     \/ /\ configSeen # Len(config)
        /\ UNCHANGED <<config, faults>>
     \/ /\ Disturb("configfails")
        /\ UNCHANGED config
  /\ worker' = [worker EXCEPT !.pc = "metrics"]
  /\ UNCHANGED <<revisions, seen, notify, queue, active, jobVars, configSeen, metrics, logs>>

(* getJSONfromLog slices the log before anything is filed.                 *)
SlicingPanics ==
  /\ worker.pc = "config"
  /\ SlicePanics(logs)
  /\ Restart
  /\ UNCHANGED faults

(* The file is made anew and filled, or is left as it was, or emptied or   *)
(* half written; in any case Reconcile is done.                            *)
writeResultToFile ==
  /\ worker.pc = "metrics"
  /\ \/ metrics' = active /\ UNCHANGED faults
     \/ Disturb("filefails") /\ metrics' \in {metrics, NoKey}
  /\ Done
  /\ worker' = Idle
  /\ logs' = NoLog
  /\ UNCHANGED <<revisions, seen, notify, jobVars, config, configSeen>>

Reconcile ==
  \/ ((\E k \in Keys : Begin(k)) \/ Reports) /\ UNCHANGED configVars
  \/ (PollMissing \/ PollFailed \/ PollUnfinished \/ PollLogsFail) /\ UNCHANGED configVars
  \/ ReadsLogs
  \/ updateConfigMap
  \/ writeResultToFile

(* A new container starts with an empty /tmp and a fresh cache.            *)
Restarts ==
  /\ PollPanics \/ ReadingPanics \/ SlicingPanics \/ Crash
  /\ configSeen' = Len(config)
  /\ metrics' = NoKey
  /\ logs' = NoLog
  /\ UNCHANGED config

Next ==
  \/ Reconcile
  \/ Restarts
  \/ ConfigEdited
  \/ ConfigSeen
  \/ \E k \in Keys : Environment(k) /\ UNCHANGED configVars

Spec == Init /\ [][Next]_vars

-----------------------------------------------------------------------------
(* Filing a measurement never removes one, of this test or another, nor    *)
(* an entry somebody else made: the write of the whole map from a stale    *)
(* copy is refused.  At most it replaces one that the same test filed in   *)
(* the same second, which keeps its name.                                  *)
EntriesKept == [][Data \subseteq Data']_vars

(* What is filed, published as metrics or reported as a Success was        *)
(* measured by a Job of the test that ran to its end.                      *)
EntriesOf(k) == {entry \in Data : entry.test = k}
Measured(k) == \E j \in 1..Len(jobs[k]) : jobs[k][j].complete
FiledIsMeasured ==
  \A k \in Keys :
    EntriesOf(k) # {} \/ metrics = k \/ Obj(k).status = "Success" => Measured(k)

(* A Success is never reported of a log that kills the reader, however     *)
(* often the process comes back to it, or goes on beside it.               *)
ReadWhole(k) ==
  \E j \in 1..Len(jobs[k]) : jobs[k][j].complete /\ ~ReadPanics(jobs[k][j].log)
SuccessIsRead == JobsToldApart =>
  \A k \in Keys : Obj(k).status = "Success" => ReadWhole(k)

(* The README promises that the measurement of a finished test is filed.   *)
FinishedIsFiled ==
  \A k \in Keys :
    Obj(k).live /\ Obj(k).status = "Success" /\ active # k => EntriesOf(k) # {}

(* It is, if there is but one test and one Job of it, nobody else writes   *)
(* the ConfigMap, the log has its braces in order, and the process lives   *)
(* on to file it.                                                          *)
OnlyTest == \A j, k \in Keys : Latest(j) > 1 /\ Latest(k) > 1 => j = k
AloneIsFiled ==
  Without({"crash", "configedit", "configfails", "recreate", "jobdelete"})
    /\ OnlyTest
    /\ (\A k \in Keys : ~SlicePanics(JobObj(k).log)) => FinishedIsFiled
=============================================================================
