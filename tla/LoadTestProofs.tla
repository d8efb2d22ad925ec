-------------------------- MODULE LoadTestProofs --------------------------
(***************************************************************************)
(* What holds of the LoadTest controller for any number of tests and       *)
(* disturbances: its types, that a test has one result, that none is lost  *)
(* or started twice, that a finished load is read and its measurement      *)
(* filed; and, for any lines of a log and wherever it was cut, what the    *)
(* controller reads out of it.                                             *)
(***************************************************************************)
EXTENDS LoadTest, LoadLines, TestJobProofs

LEMMA ReadsLogsDecides ==
  ASSUME ReadsLogs
  PROVE  /\ Polls /\ Decide("Success") /\ "Success" \in Statuses \ {Blank}
         /\ UNCHANGED <<runtimeVars, jobVars>>
BY ResultsAssumption DEF ReadsLogs, PollReadsLogs, CanRead

(* The steps of this controller, as steps of the part the tests share.     *)
LEMMA updateConfigMapKeeps ==
  ASSUME TestInv, updateConfigMap
  PROVE  TestInv'
<1>1. RuntimeTypeOK /\ JobsTypeOK BY DEF TestInv, TestTypeOK, JobsTypeOK
<1>2. active \in Keys /\ worker \in Worker BY PollingHoldsKey DEF updateConfigMap
<1>3. faults' \subseteq Faults
  BY <1>1, DisturbCounts DEF updateConfigMap, RuntimeTypeOK
<1>4. RuntimeTypeOK' /\ JobsTypeOK'
  BY <1>1, <1>3 DEF updateConfigMap, RuntimeTypeOK, JobsTypeOK, jobVars
<1>5. /\ worker' \in Worker /\ worker'.pc = "metrics" /\ worker'.snap = worker.snap
      /\ UNCHANGED <<active, seen>>
  BY <1>2 DEF updateConfigMap, Worker
<1>6. TestTypeOK'
  BY <1>2, <1>4, <1>5, KeysAssumption DEF TestInv, TestTypeOK, JobsTypeOK
<1> QED BY <1>5, <1>6 DEF TestInv, SnapshotUndecided, VerdictMade

LEMMA writeResultToFileKeeps ==
  ASSUME TestInv, writeResultToFile
  PROVE  TestInv'
<1>1. RuntimeTypeOK /\ JobsTypeOK BY DEF TestInv, TestTypeOK, JobsTypeOK
<1>2. faults' \subseteq Faults
  BY <1>1, DisturbCounts DEF writeResultToFile, RuntimeTypeOK
<1>3. RuntimeTypeOK' /\ JobsTypeOK'
  BY <1>1, <1>2 DEF writeResultToFile, Done, RuntimeTypeOK, JobsTypeOK, jobVars
<1> QED BY <1>3, IdleKeeps DEF writeResultToFile, Done

LEMMA PanicKeeps ==
  ASSUME TestInv, Restarts
  PROVE  TestInv'
<1>1. faults' \subseteq Faults
  BY DisturbCounts DEF Restarts, PollPanics, ReadingPanics, SlicingPanics, Crash,
                       TestInv, TestTypeOK, RuntimeTypeOK
<1>2. Restart BY DEF Restarts, PollPanics, ReadingPanics, SlicingPanics, Crash
<1> QED BY <1>1, <1>2, RestartKeeps

LEMMA NextKeeps ==
  ASSUME TestInv, [Next]_vars
  PROVE  TestInv'
<1>1. CASE UNCHANGED testVars
  BY <1>1 DEF testVars, runtimeVars, jobVars, TestInv, TestTypeOK, RuntimeTypeOK,
              SnapshotUndecided, VerdictMade
<1>2. ASSUME NEW k \in Keys, Begin(k) PROVE TestInv' BY <1>2, BeginKeeps
<1>3. CASE PollMissing \/ PollFailed \/ PollUnfinished \/ PollLogsFail
  BY <1>3, PollWaitsKeeps DEF PollWaits
<1>4. CASE ReadsLogs BY <1>4, ReadsLogsDecides, DecideKeeps
<1>5. CASE Reports BY <1>5, updateStatusKeeps DEF Reports
<1>6. CASE updateConfigMap \/ writeResultToFile
  BY <1>6, updateConfigMapKeeps, writeResultToFileKeeps
<1>7. CASE Restarts BY <1>7, PanicKeeps
<1>8. CASE ConfigEdited
  <2>1. faults' \subseteq Faults
    BY <1>8, DisturbCounts DEF ConfigEdited, TestInv, TestTypeOK
  <2> QED BY <1>8, <2>1 DEF ConfigEdited, jobVars, TestInv, TestTypeOK, RuntimeTypeOK,
                            SnapshotUndecided, VerdictMade
<1>9. CASE ConfigSeen BY <1>1, <1>9 DEF ConfigSeen
<1>10. ASSUME NEW k \in Keys, Environment(k) PROVE TestInv'
  BY <1>10, UserKeeps, InformerKeeps, ClusterKeeps DEF Environment
<1> QED
  BY <1>1, <1>2, <1>3, <1>4, <1>5, <1>6, <1>7, <1>8, <1>9, <1>10
  DEF Next, Reconcile, vars

LEMMA Invariance == Spec => []TestInv
<1>1. Init => TestInv BY InitInv DEF Init
<1> QED BY <1>1, NextKeeps, PTL DEF Spec

(* The steps that store no revision of a test.                             *)
LEMMA QuietSteps ==
  ASSUME \/ PollMissing \/ PollFailed \/ PollUnfinished \/ PollLogsFail \/ ReadsLogs
         \/ updateConfigMap \/ writeResultToFile \/ ConfigEdited \/ Restarts
  PROVE  UNCHANGED revisions
BY DEF PollMissing, PollFailed, PollUnfinished, PollLogsFail, ReadsLogs, PollReadsLogs,
       updateConfigMap, writeResultToFile, ConfigEdited, Restarts, PollPanics,
       ReadingPanics, SlicingPanics, Crash, Restart, RuntimeRestarts, runtimeVars

(* This controller implements the abstract test too: filing a measurement  *)
(* has no part in how a test stands.                                       *)
THEOREM IsATest == Spec => OneResult
<1>1. Init => Outside!Init BY InitOutside DEF Init
<1>2. ASSUME TestInv, [Next]_vars PROVE OutsideStep
  <2>1. RuntimeTypeOK BY <1>2 DEF TestInv, TestTypeOK
  <2>2. CASE \E k \in Keys : Begin(k) BY <2>2, WorkerOutside
  <2>3. CASE \/ PollMissing \/ PollFailed \/ PollUnfinished \/ PollLogsFail \/ ReadsLogs
             \/ updateConfigMap \/ writeResultToFile \/ ConfigEdited \/ Restarts
             \/ UNCHANGED testVars
    BY <2>3, QuietSteps, UnchangedOutside DEF testVars, runtimeVars
  <2>4. CASE Reports BY <1>2, <2>4, updateStatusOutside DEF Reports
  <2>5. ASSUME NEW k \in Keys, Environment(k) PROVE OutsideStep
    BY <2>1, <2>5, EnvironmentOutside
  <2> QED BY <1>2, <2>2, <2>3, <2>4, <2>5 DEF Next, Reconcile, ConfigSeen, vars
<1> QED BY <1>1, <1>2, Invariance, PTL
  DEF Spec, OneResult, OutsideStep, Standings, Outside!Spec

-----------------------------------------------------------------------------
(* The ConfigMap, its cache, the metrics file and the log that was read.   *)
ConfigTypeOK ==
  /\ config \in Seq(SUBSET Entry)
  /\ configSeen \in 1..Len(config)
  /\ metrics \in Keys \cup {NoKey}
  /\ logs \in AnyLog

LEMMA AddEntryAppends ==
  ASSUME ConfigTypeOK, NEW test \in Keys \cup {NoKey}, AddEntry(Data, test)
  PROVE  /\ config' \in Seq(SUBSET Entry)
         /\ Len(config') = Len(config) + 1
         /\ Len(config) \in Nat
         /\ \E at \in Nat : Data' = Data \cup {[test |-> test, at |-> at]}
         /\ Data \subseteq Data'
<1>1. Len(config) \in Nat /\ Len(config) >= 1 BY LenProperties DEF ConfigTypeOK
<1>2. Data \in SUBSET Entry BY <1>1, LenProperties DEF ConfigTypeOK, Data
<1>3. PICK at \in Seconds(Data, test) :
        config' = Append(config, Data \cup {[test |-> test, at |-> at]})
  BY DEF AddEntry
<1>4. at \in Nat /\ [test |-> test, at |-> at] \in Entry
  BY <1>1, <1>2, <1>3 DEF Seconds, Entry
<1> DEFINE after == Data \cup {[test |-> test, at |-> at]}
<1>5. after \in SUBSET Entry BY <1>2, <1>4
<1>6. config' = Append(config, after) BY <1>3
<1>7. Data \subseteq after OBVIOUS
<1>8. after = Data \cup {[test |-> test, at |-> at]} OBVIOUS
<1> HIDE DEF after
<1>9. /\ config' \in Seq(SUBSET Entry)
      /\ Len(config') = Len(config) + 1
      /\ config'[Len(config) + 1] = after
  BY <1>5, <1>6, AppendProperties DEF ConfigTypeOK
<1>10. Data' = after BY <1>9 DEF Data
<1> QED BY <1>1, <1>4, <1>7, <1>8, <1>9, <1>10

(* Every step keeps the types of the ConfigMap and all of its entries.     *)
LEMMA ConfigKept ==
  ASSUME TestInv, ConfigTypeOK, [Next]_vars
  PROVE  ConfigTypeOK' /\ Data \subseteq Data'
<1>1. Len(config) \in Nat /\ Len(config) >= 1 /\ configSeen \in 1..Len(config)
  BY LenProperties DEF ConfigTypeOK
<1>2. CASE UNCHANGED configVars
  BY <1>2 DEF configVars, ConfigTypeOK, Data
<1>3. CASE updateConfigMap
  <2>1. active \in Keys BY <1>3, PollingHoldsKey DEF updateConfigMap
  <2>2. UNCHANGED <<configSeen, metrics, logs>> BY <1>3 DEF updateConfigMap
  <2>3. CASE UNCHANGED config
    BY <2>2, <2>3 DEF ConfigTypeOK, Data
  <2>4. CASE AddEntry(Data, active)
    BY <1>1, <2>1, <2>2, <2>4, AddEntryAppends DEF ConfigTypeOK
  <2> QED BY <1>3, <2>3, <2>4 DEF updateConfigMap, Data
<1>4. CASE ConfigEdited
  BY <1>1, <1>4, AddEntryAppends DEF ConfigEdited, ConfigTypeOK
<1>5. CASE ConfigSeen
  BY <1>1, <1>5 DEF ConfigSeen, ConfigTypeOK, Data
<1>6. CASE Restarts
  BY <1>1, <1>6 DEF Restarts, ConfigTypeOK, Data, AnyLog
<1>7. CASE ReadsLogs
  BY <1>7 DEF ReadsLogs, ConfigTypeOK, Data
<1>8. CASE writeResultToFile
  <2>1. active \in Keys BY <1>8, PollingHoldsKey DEF writeResultToFile
  <2> QED BY <1>8, <2>1 DEF writeResultToFile, ConfigTypeOK, Data, AnyLog
<1> QED BY <1>2, <1>3, <1>4, <1>5, <1>6, <1>7, <1>8 DEF Next, Reconcile, vars

(* The variables keep their types, those of the ConfigMap included.        *)
THEOREM TypeCorrect == Spec => []TypeOK
<1>1. Init => TestInv /\ ConfigTypeOK
  <2>1. ASSUME Init PROVE ConfigTypeOK
    <3>1. <<{}>> \in Seq(SUBSET Entry) /\ Len(<<{}>>) = 1 OBVIOUS
    <3> QED BY <2>1, <3>1 DEF Init, ConfigTypeOK, AnyLog
  <2> QED BY <2>1, InitInv DEF Init
<1>2. (TestInv /\ ConfigTypeOK) /\ [Next]_vars => (TestInv /\ ConfigTypeOK)'
  BY NextKeeps, ConfigKept
<1>3. TestInv /\ ConfigTypeOK => TypeOK BY DEF TestInv, ConfigTypeOK, TypeOK
<1> QED BY <1>1, <1>2, <1>3, PTL DEF Spec

(* No step removes an entry from fortio-data-dir: neither the operator's   *)
(* write of the whole map from its cached copy, nor a restart in between.  *)
THEOREM EntriesAreKept == Spec => EntriesKept
<1>1. ASSUME TestInv, TypeOK, [Next]_vars PROVE [Data \subseteq Data']_vars
  BY <1>1, ConfigKept DEF TypeOK, ConfigTypeOK
<1> QED BY <1>1, Invariance, TypeCorrect, PTL DEF Spec, EntriesKept

-----------------------------------------------------------------------------
(* Measured before filed: the inductive invariant follows a verdict from   *)
(* the Job it was drawn from to the status, the ConfigMap and the metrics. *)
Reporting == worker.pc = "status" /\ worker.verdict = "Success"
MeasuredInv ==
  /\ \A k \in Keys : Obj(k).status = "Success" => Measured(k)
  /\ \A k \in Keys : EntriesOf(k) # {} \/ metrics = k => Measured(k)
  /\ Reporting \/ worker.pc \in {"config", "metrics"} => Measured(active)

LEMMA NextGrows ==
  ASSUME TestInv, [Next]_vars
  PROVE  JobsGrow
<1>1. TestTypeOK BY DEF TestInv
<1>2. CASE \/ updateConfigMap \/ writeResultToFile \/ ConfigEdited \/ ConfigSeen
           \/ ReadsLogs \/ Restarts \/ UNCHANGED vars
  <2>1. UNCHANGED jobs
    BY <1>2 DEF updateConfigMap, writeResultToFile, ConfigEdited, ConfigSeen, ReadsLogs,
                PollReadsLogs, Restarts, PollPanics, ReadingPanics, SlicingPanics, Crash,
                Restart, jobVars, testVars, vars
  <2> QED BY <1>1, <2>1, UnchangedGrow
<1>3. CASE PollMissing \/ PollFailed \/ PollUnfinished \/ PollLogsFail
  BY <1>1, <1>3, WorkerGrows DEF PollWaits
<1>4. CASE (\E k \in Keys : Begin(k)) \/ Reports
  BY <1>1, <1>4, WorkerGrows DEF Reports
<1>5. ASSUME NEW k \in Keys, Environment(k) PROVE JobsGrow
  BY <1>1, <1>5, EnvironmentGrows
<1> QED BY <1>2, <1>3, <1>4, <1>5 DEF Next, Reconcile

LEMMA MeasuredStays ==
  ASSUME JobsGrow, NEW k \in Keys, Measured(k)
  PROVE  Measured(k)'
<1>1. PICK j \in 1..Len(jobs[k]) : jobs[k][j].complete BY DEF Measured
<1>2. j \in 1..Len(jobs'[k]) /\ jobs'[k][j] = jobs[k][j] BY DEF JobsGrow
<1> QED BY <1>1, <1>2 DEF Measured

(* How a test's status comes about: the user keeps or blanks it, and the   *)
(* worker writes the verdict it has reached.                               *)
LEMMA SuccessComes ==
  ASSUME TestInv, [Next]_vars, NEW k \in Keys, Obj(k)'.status = "Success"
  PROVE  \/ Obj(k).status = "Success" /\ (Obj(k)'.live => Obj(k).live)
         \/ Reports /\ Reporting /\ active = k /\ Obj(k).live
<1>1. RuntimeTypeOK BY DEF TestInv, TestTypeOK
<1>2. "Success" # Blank BY ResultsAssumption
<1>3. CASE UNCHANGED revisions BY <1>3 DEF Obj, Latest
<1>4. ASSUME NEW j \in Keys, User(j)
      PROVE  Obj(k).status = "Success" /\ (Obj(k)'.live => Obj(k).live)
  <2>1. Latest(j) \in Nat /\ Obj(j) \in Object BY <1>1, ObjectsTyped
  <2>2. PICK object \in Object :
          /\ Store(j, object)
          /\ object.status = Blank
             \/ (object.status = Obj(j).status /\ (object.live => Obj(j).live))
    <3>1. CASE \E spec \in Specs : UserCreates(j, spec)
      <4>1. PICK spec \in Specs : UserCreates(j, spec) BY <3>1
      <4>2. [live |-> TRUE, uid |-> Latest(j) + 1, spec |-> spec, status |-> Blank] \in Object
        BY <2>1, StatusAssumption DEF Object
      <4> QED BY <4>1, <4>2 DEF UserCreates
    <3>2. CASE \E spec \in Specs : UserEdits(j, spec)
      <4>1. PICK spec \in Specs : UserEdits(j, spec) BY <3>2
      <4>2. /\ [Obj(j) EXCEPT !.spec = spec] \in Object
            /\ [Obj(j) EXCEPT !.spec = spec].status = Obj(j).status
        BY <2>1 DEF Object
      <4> QED BY <4>1, <4>2 DEF UserEdits
    <3>3. CASE UserDeletes(j)
      <4>1. /\ [Obj(j) EXCEPT !.live = FALSE] \in Object
            /\ [Obj(j) EXCEPT !.live = FALSE].status = Obj(j).status
        BY <2>1 DEF Object
      <4> QED BY <3>3, <4>1 DEF UserDeletes
    <3> QED BY <1>4, <3>1, <3>2, <3>3 DEF User
  <2>3. Obj(j)' = object /\ \A i \in Keys \ {j} : revisions'[i] = revisions[i]
    BY <1>1, <2>2, StoreAppends
  <2> QED BY <1>2, <2>2, <2>3 DEF Obj, Latest
<1>5. CASE Reports
  <2>1. active \in Keys /\ worker \in Worker
    BY <1>5, PollingHoldsKey DEF Reports, updateStatus
  <2>2. ASSUME NEW j \in Keys, j = active, Obj(j).live,
               Store(j, [Obj(j) EXCEPT !.status = worker.verdict])
        PROVE  \/ Obj(k).status = "Success" /\ (Obj(k)'.live => Obj(k).live)
               \/ Reports /\ Reporting /\ active = k /\ Obj(k).live
    <3>1. Obj(j) \in Object BY <1>1, ObjectsTyped
    <3>2. /\ [Obj(j) EXCEPT !.status = worker.verdict] \in Object
          /\ [Obj(j) EXCEPT !.status = worker.verdict].status = worker.verdict
      BY <2>1, <3>1 DEF Object, Worker
    <3>3. /\ Obj(j)'.status = worker.verdict
          /\ \A i \in Keys \ {j} : revisions'[i] = revisions[i]
      BY <1>1, <2>2, <3>2, StoreAppends
    <3>4. CASE k = j
      <4>1. Reporting BY <1>5, <2>2, <3>3, <3>4 DEF Reports, updateStatus, Reporting
      <4> QED BY <1>5, <2>2, <3>4, <4>1
    <3>5. CASE k # j BY <3>3, <3>5 DEF Obj, Latest
    <3> QED BY <3>4, <3>5
  <2>3. CASE /\ worker.snap = Latest(active)
             /\ Store(active, [revisions[active][worker.snap] EXCEPT !.status = worker.verdict])
    <3>1. Obj(active).live
      BY <1>5, <2>3 DEF Reports, updateStatus, TestInv, SnapshotUndecided, Obj
    <3> QED BY <2>1, <2>2, <2>3, <3>1 DEF Obj
  <2> QED BY <1>3, <1>5, <2>3 DEF Reports, updateStatus, WriteStatus
<1>6. ASSUME NEW j \in Keys, Environment(j), ~User(j) PROVE UNCHANGED revisions
  BY <1>6 DEF Environment, Informer, InformerReceives, HandlerEnqueues, Resync,
              ResyncLags, Cluster, runtimeVars
<1>7. ASSUME NEW j \in Keys, Begin(j) PROVE UNCHANGED revisions
  BY <1>7 DEF Begin, BeginSkips, BeginFindsJob, BeginCreatesJob, BeginFails
<1> QED BY <1>3, <1>4, <1>5, <1>6, <1>7, QuietSteps
  DEF Next, Reconcile, ConfigSeen, vars, testVars, runtimeVars

(* How the worker comes to report or to file: it reads the log of a Job    *)
(* that is complete, and keeps to that test until it is done.              *)
Held == UNCHANGED <<worker, active, logs>>

LEMMA WorkComes ==
  ASSUME TestInv, [Next]_vars
  PROVE  /\ Reporting' => ReadsLogs \/ (Reporting /\ Held)
         /\ worker'.pc = "config" =>
              \/ Reports /\ Reporting /\ UNCHANGED <<active, logs>>
              \/ worker.pc = "config" /\ Held
         /\ worker'.pc = "metrics" => updateConfigMap \/ (worker.pc = "metrics" /\ Held)
<1>1. CASE Held BY <1>1 DEF Held, Reporting
<1>2. CASE ReadsLogs
  <2>1. worker \in Worker /\ Decide("Success")
    BY <1>2, ReadsLogsDecides, PollingHoldsKey DEF Polls
  <2> QED BY <1>2, <2>1 DEF Decide, Worker
<1>3. CASE Reports /\ UNCHANGED configVars
  <2>1. worker \in Worker BY <1>3, PollingHoldsKey DEF Reports, updateStatus
  <2>2. CASE worker.verdict = "Success"
    <3>1. worker'.pc = "config" /\ UNCHANGED active /\ Reporting
      BY <1>3, <2>1, <2>2 DEF Reports, updateStatus, Worker, Reporting
    <3> QED BY <1>3, <3>1 DEF Reporting, configVars
  <2>3. CASE worker.verdict # "Success"
    BY <1>3, <2>3 DEF Reports, updateStatus, Idle, Reporting
  <2> QED BY <2>2, <2>3
<1>4. CASE updateConfigMap
  <2>1. worker \in Worker BY <1>4, PollingHoldsKey DEF updateConfigMap
  <2> QED BY <1>4, <2>1 DEF updateConfigMap, Worker, Reporting
<1>5. CASE writeResultToFile \/ Restarts
  BY <1>5 DEF writeResultToFile, Restarts, PollPanics, ReadingPanics, SlicingPanics, Crash,
              Restart, Idle, Reporting
<1>6. CASE PollMissing \/ PollFailed \/ PollUnfinished \/ PollLogsFail
  <2>1. worker \in Worker /\ worker.pc = "poll"
    BY <1>6, PollingHoldsKey DEF PollMissing, PollFailed, PollUnfinished, PollLogsFail, Polls
  <2>2. CASE Decide("Failure") BY <2>1, <2>2 DEF Decide, Worker, Reporting
  <2>3. CASE worker' = [worker EXCEPT !.sec = SleepAfter(@)]
    BY <2>1, <2>3 DEF Worker, Reporting
  <2>4. CASE worker' = Idle BY <2>4 DEF Idle, Reporting
  <2> QED BY <1>6, <2>2, <2>3, <2>4
          DEF PollMissing, PollFailed, PollUnfinished, PollLogsFail
<1>7. ASSUME NEW k \in Keys, Begin(k), UNCHANGED configVars
      PROVE  worker'.pc = "poll" \/ Held
  BY <1>7 DEF Begin, BeginSkips, BeginFails, BeginFindsJob, BeginCreatesJob, StartPolling, Idle,
              Held, configVars
<1>8. CASE ConfigEdited \/ ConfigSeen \/ UNCHANGED vars
  BY <1>1, <1>8 DEF ConfigEdited, ConfigSeen, vars, testVars, runtimeVars, configVars, Held
<1>9. ASSUME NEW k \in Keys, Environment(k), UNCHANGED configVars PROVE Held
  BY <1>9 DEF Environment, Cluster, User, UserCreates, UserEdits, UserDeletes, Informer,
              InformerReceives, HandlerEnqueues, Resync, ResyncLags, runtimeVars, configVars, Held
<1> QED BY <1>1, <1>2, <1>3, <1>4, <1>5, <1>6, <1>7, <1>8, <1>9 DEF Next, Reconcile, Reporting

LEMMA WorkIsMeasured ==
  ASSUME TestInv, MeasuredInv, [Next]_vars
  PROVE  (Reporting \/ worker.pc \in {"config", "metrics"} => Measured(active))'
<1>1. JobsGrow BY NextGrows
<1>2. CASE (Reporting \/ worker.pc \in {"config", "metrics"}) /\ UNCHANGED active
  <2>1. active \in Keys BY <1>2, PollingHoldsKey DEF Reporting
  <2> QED BY <1>1, <1>2, <2>1, MeasuredStays DEF MeasuredInv, Measured
<1>3. CASE ReadsLogs
  <2>1. active \in Keys BY <1>3, ReadsLogsDecides, PollingHoldsKey DEF Polls
  <2>2. jobSeen[active] \in 1..Len(jobs[active]) BY <2>1, JobsTyped DEF TestInv
  <2>3. CachedJob(active).complete BY <1>3 DEF ReadsLogs, PollReadsLogs, CanRead
  <2>4. Measured(active) BY <2>2, <2>3 DEF Measured, CachedJob
  <2> QED BY <1>3, <2>4 DEF ReadsLogs, PollReadsLogs, Measured, runtimeVars, jobVars
<1> QED BY <1>2, <1>3, WorkComes DEF Held, Reporting, updateConfigMap

(* How an entry and the metrics come about.                                *)
LEMMA FilingComes ==
  ASSUME TestInv, ConfigTypeOK, [Next]_vars, NEW k \in Keys,
         (EntriesOf(k) # {} \/ metrics = k)'
  PROVE  \/ EntriesOf(k) # {} \/ metrics = k
         \/ worker.pc \in {"config", "metrics"} /\ active = k
<1>1. CASE UNCHANGED configVars \/ ReadsLogs \/ ConfigSeen
  BY <1>1 DEF configVars, ReadsLogs, ConfigSeen, EntriesOf, Data
<1>2. CASE updateConfigMap
  <2>1. active \in Keys BY <1>2, PollingHoldsKey DEF updateConfigMap
  <2>2. CASE UNCHANGED config BY <1>2, <2>2 DEF updateConfigMap, EntriesOf, Data
  <2>3. CASE AddEntry(Data, active)
    <3>1. PICK at \in Nat : Data' = Data \cup {[test |-> active, at |-> at]}
      BY <2>1, <2>3, AddEntryAppends
    <3> QED BY <1>2, <3>1 DEF updateConfigMap, EntriesOf
  <2> QED BY <1>2, <2>2, <2>3 DEF updateConfigMap, Data
<1>3. CASE writeResultToFile
  BY <1>3, KeysAssumption DEF writeResultToFile, EntriesOf, Data
<1>4. CASE Restarts
  BY <1>4, KeysAssumption DEF Restarts, EntriesOf, Data
<1>5. CASE ConfigEdited
  <2>1. PICK at \in Nat : Data' = Data \cup {[test |-> NoKey, at |-> at]}
    BY <1>5, AddEntryAppends DEF ConfigEdited
  <2> QED BY <1>5, <2>1, KeysAssumption DEF ConfigEdited, EntriesOf
<1> QED BY <1>1, <1>2, <1>3, <1>4, <1>5 DEF Next, Reconcile, vars

(* Nothing is filed, published or reported as a Success that no Job of the *)
(* test has measured, over restarts, lost pods and stale copies.           *)
THEOREM OnlyMeasuredIsFiled == Spec => []FiledIsMeasured
<1>1. Init => MeasuredInv
  <2> SUFFICES ASSUME Init PROVE MeasuredInv OBVIOUS
  <2>1. \A k \in Keys : Obj(k).status # "Success"
    BY ResultsAssumption DEF Init, TestInit, RuntimeInit, Obj, Latest, Absent
  <2>2. Data = {} /\ metrics = NoKey BY DEF Init, Data
  <2> QED BY <2>1, <2>2, KeysAssumption
          DEF Init, TestInit, Idle, MeasuredInv, EntriesOf, Reporting
<1>2. ASSUME TestInv, ConfigTypeOK, MeasuredInv, [Next]_vars PROVE MeasuredInv'
  <2>1. JobsGrow BY <1>2, NextGrows
  <2>2. ASSUME NEW k \in Keys, Obj(k)'.status = "Success" PROVE Measured(k)'
    BY <1>2, <2>1, <2>2, SuccessComes, MeasuredStays DEF MeasuredInv
  <2>3. ASSUME NEW k \in Keys, (EntriesOf(k) # {} \/ metrics = k)' PROVE Measured(k)'
    BY <1>2, <2>1, <2>3, FilingComes, MeasuredStays DEF MeasuredInv
  <2> QED BY <1>2, <2>2, <2>3, WorkIsMeasured DEF MeasuredInv
<1>3. MeasuredInv => FiledIsMeasured BY DEF MeasuredInv, FiledIsMeasured
<1>4. TypeOK => ConfigTypeOK BY DEF TypeOK, ConfigTypeOK
<1> QED BY <1>1, <1>2, <1>3, <1>4, Invariance, TypeCorrect, PTL DEF Spec

-----------------------------------------------------------------------------
LEMMA FaultsAccumulate ==
  ASSUME [Next]_vars
  PROVE  faults \subseteq faults'
<1>1. CASE Reports
  BY <1>1 DEF Reports, updateStatus, WriteStatus, Disturb
<1>2. ASSUME NEW k \in Keys, Begin(k) PROVE faults \subseteq faults'
  BY <1>2 DEF Begin, BeginSkips, BeginFindsJob, BeginCreatesJob, BeginFails, Disturb
<1>3. CASE PollMissing \/ PollFailed \/ PollUnfinished \/ PollLogsFail
  BY <1>3 DEF PollMissing, PollFailed, PollUnfinished, PollLogsFail, Disturb, runtimeVars
<1>4. CASE ReadsLogs \/ updateConfigMap \/ writeResultToFile
  BY <1>4 DEF ReadsLogs, PollReadsLogs, updateConfigMap, writeResultToFile, Disturb, runtimeVars
<1>5. CASE Restarts \/ ConfigEdited \/ ConfigSeen \/ UNCHANGED vars
  BY <1>5 DEF Restarts, PollPanics, ReadingPanics, SlicingPanics, Crash, ConfigEdited,
              ConfigSeen, Disturb, runtimeVars, testVars, vars
<1>6. ASSUME NEW k \in Keys, Environment(k) PROVE faults \subseteq faults'
  <2>1. CASE User(k)
    BY <2>1 DEF User, UserCreates, UserEdits, UserDeletes, Disturb
  <2>2. CASE Informer(k)
    BY <2>2 DEF Informer, InformerReceives, HandlerEnqueues, Resync, ResyncLags, Disturb
  <2>3. CASE Cluster(k)
    BY <2>3 DEF Cluster, JobDeleted, PodLost, JobSucceedsEarly, Disturb, runtimeVars
  <2> QED BY <1>6, <2>1, <2>2, <2>3 DEF Environment
<1> QED BY <1>1, <1>2, <1>3, <1>4, <1>5, <1>6 DEF Next, Reconcile

-----------------------------------------------------------------------------
(* No test is forgotten and none is launched twice, here as for curl tests:*)
(* neither the filing nor a panic of a reader is a way out.                *)
LEMMA NextTimely ==
  ASSUME TestInv, TimelyCompletion, "latecondition" \notin faults', [Next]_vars
  PROVE  TimelyCompletion'
<1>1. TestTypeOK BY DEF TestInv
<1>2. CASE UNCHANGED jobs BY <1>2 DEF TimelyCompletion
<1>3. ASSUME NEW k \in Keys, Begin(k) PROVE TimelyCompletion' BY <1>1, <1>3, BeginTimely
<1>4. ASSUME NEW k \in Keys, Cluster(k) PROVE TimelyCompletion' BY <1>1, <1>4, ClusterTimely
<1>5. CASE \/ PollMissing \/ PollFailed \/ PollUnfinished \/ PollLogsFail \/ ReadsLogs
           \/ Reports \/ updateConfigMap \/ writeResultToFile \/ Restarts \/ ConfigEdited
           \/ ConfigSeen \/ UNCHANGED vars
  <2>1. UNCHANGED jobs
    BY <1>5 DEF PollMissing, PollFailed, PollUnfinished, PollLogsFail, ReadsLogs,
                PollReadsLogs, Reports, updateStatus, updateConfigMap, writeResultToFile,
                Restarts, PollPanics, ReadingPanics, SlicingPanics, Crash, Restart,
                ConfigEdited, ConfigSeen, jobVars, testVars, vars
  <2> QED BY <1>2, <2>1
<1> QED BY <1>2, <1>3, <1>4, <1>5 DEF Next, Reconcile, Environment, jobVars

LEMMA NextRemembers ==
  ASSUME TestInv, TimelyCompletion, NoneForgotten, "statusfails" \notin faults', [Next]_vars
  PROVE  NoneForgotten'
<1>1. ASSUME NEW k \in Keys, Begin(k) PROVE NoneForgotten' BY <1>1, BeginRemembers
<1>2. CASE PollMissing \/ PollFailed \/ PollUnfinished \/ PollLogsFail
  BY <1>2, PollWaitsRemembers DEF PollWaits
<1>3. CASE ReadsLogs BY <1>3, ReadsLogsDecides, DecideRemembers
<1>4. CASE Reports BY <1>4, updateStatusRemembers DEF Reports
<1>5. CASE updateConfigMap \/ writeResultToFile
  <2>1. worker.pc \in {"config", "metrics"} /\ UNCHANGED <<revisions, seen, notify, queue>>
    BY <1>5 DEF updateConfigMap, writeResultToFile, Done
  <2>2. \A j \in Keys : Obj(j)' = Obj(j) /\ Latest(j)' = Latest(j) BY <2>1 DEF Obj, Latest
  <2> QED BY <2>1, <2>2 DEF NoneForgotten, Remembered
<1>6. CASE Restarts
  BY <1>6, RestartRemembers DEF Restarts, PollPanics, ReadingPanics, SlicingPanics, Crash
<1>7. CASE UNCHANGED <<revisions, seen, notify, queue, active, worker>>
  BY <1>7 DEF NoneForgotten, Remembered, Obj, Latest
<1>8. ASSUME NEW k \in Keys, Environment(k) PROVE NoneForgotten'
  <2>1. CASE Cluster(k) BY <1>7, <2>1 DEF Cluster, runtimeVars
  <2> QED BY <1>8, <2>1, UserRemembers, InformerRemembers DEF Environment
<1> QED BY <1>1, <1>2, <1>3, <1>4, <1>5, <1>6, <1>7, <1>8
        DEF Next, Reconcile, ConfigEdited, ConfigSeen, vars, testVars, runtimeVars

(* Unless a status write failed by itself or Complete came late, no        *)
(* undecided LoadTest drops out of queue, notifications, cache lag and     *)
(* worker, also if its log cannot be read and takes the process with it.   *)
THEOREM NoTestIsLost == Spec => []NoLostTest
<1> DEFINE Calm == Without({"statusfails", "latecondition"})
           Kept == TestInv /\ (Calm => TimelyCompletion /\ NoneForgotten)
<1>1. Init => Kept BY InitInv, InitRemembers DEF Init
<1>2. Kept /\ [Next]_vars => Kept'
  <2> SUFFICES ASSUME Kept, [Next]_vars PROVE Kept' OBVIOUS
  <2>1. Calm' => Calm /\ "statusfails" \notin faults' /\ "latecondition" \notin faults'
    BY FaultsAccumulate DEF Without
  <2> QED BY <2>1, NextKeeps, NextTimely, NextRemembers
<1>3. Kept => NoLostTest BY DEF NoLostTest
<1> QED BY <1>1, <1>2, <1>3, PTL DEF Spec

LEMMA NextLaunches ==
  ASSUME TestInv, Numbered, LaunchStands, "jobdelete" \notin faults', [Next]_vars
  PROVE  Numbered' /\ LaunchStands'
<1>1. TestTypeOK BY DEF TestInv
<1>2. ASSUME NEW k \in Keys, Begin(k) PROVE Numbered' /\ LaunchStands'
  BY <1>1, <1>2, BeginLaunches
<1>3. CASE \/ PollMissing \/ PollFailed \/ PollUnfinished \/ PollLogsFail \/ ReadsLogs
           \/ updateConfigMap \/ writeResultToFile \/ Restarts \/ ConfigEdited \/ ConfigSeen
           \/ UNCHANGED vars
  <2>1. UNCHANGED <<revisions, jobs>>
    BY <1>3 DEF PollMissing, PollFailed, PollUnfinished, PollLogsFail, ReadsLogs,
                PollReadsLogs, updateConfigMap, writeResultToFile,
                Restarts, PollPanics, ReadingPanics, SlicingPanics, Crash, Restart,
                RuntimeRestarts, ConfigEdited, ConfigSeen, runtimeVars, jobVars, testVars, vars
  <2> QED BY <2>1, UnchangedLaunches
<1>4. CASE Reports BY <1>4, updateStatusLaunches DEF Reports
<1>5. ASSUME NEW k \in Keys, Environment(k) PROVE Numbered' /\ LaunchStands'
  <2>1. CASE User(k) /\ UNCHANGED jobVars BY <1>1, <2>1, UserLaunches DEF jobVars
  <2>2. CASE Informer(k) /\ UNCHANGED jobVars
    <3>1. UNCHANGED <<revisions, jobs>>
      BY <2>2 DEF Informer, InformerReceives, HandlerEnqueues, Resync, ResyncLags, jobVars
    <3> QED BY <3>1, UnchangedLaunches
  <2>3. CASE Cluster(k) BY <1>1, <2>3, ClusterLaunches
  <2> QED BY <1>5, <2>1, <2>2, <2>3 DEF Environment
<1> QED BY <1>2, <1>3, <1>4, <1>5 DEF Next, Reconcile

(* As long as a LoadTest exists and nobody deletes its Job, its target gets*)
(* one load at most, however often the creation is retried, the process    *)
(* panics over the log, or a decided test is read again from the cache.    *)
THEOREM OneJobPerTest == Spec => []OneJob
<1> DEFINE Calm == Without({"jobdelete"})
           Kept == TestInv /\ (Calm => Numbered /\ LaunchStands)
<1>1. Init => Kept BY InitInv, InitLaunches DEF Init
<1>2. Kept /\ [Next]_vars => Kept'
  <2> SUFFICES ASSUME Kept, [Next]_vars PROVE Kept' OBVIOUS
  <2>1. Calm' => Calm /\ "jobdelete" \notin faults' BY FaultsAccumulate DEF Without
  <2> QED BY <2>1, NextKeeps, NextLaunches
<1>3. Kept => OneJob BY LaunchesOnce DEF OneJob, TestInv
<1> QED BY <1>1, <1>2, <1>3, PTL DEF Spec

-----------------------------------------------------------------------------
(* A Success is of a log that was read to its end.                         *)
LEMMA NextJobs ==
  ASSUME TestInv, JobsKept, [Next]_vars
  PROVE  JobsKept'
<1>1. worker \in Worker /\ worker.sec \in {10, 30} BY DEF TestInv, TestTypeOK, JobsKept
<1>2. faults \subseteq faults' BY FaultsAccumulate
<1>3. CASE ReadsLogs
  <2>1. UNCHANGED <<jobVars, runtimeVars>> /\ worker'.sec \in {10, 30}
    BY <1>1, <1>3, ReadsLogsDecides DEF Decide, Worker
  <2> QED BY <1>2, <2>1, QuietJobs DEF jobVars, runtimeVars
<1>4. CASE updateConfigMap \/ writeResultToFile
  <2>1. UNCHANGED <<jobVars, revisions>> /\ worker'.sec \in {10, 30}
    BY <1>1, <1>4 DEF updateConfigMap, writeResultToFile, Worker, Idle
  <2> QED BY <1>2, <2>1, QuietJobs DEF jobVars
<1>5. CASE ConfigEdited \/ ConfigSeen \/ UNCHANGED vars
  <2>1. UNCHANGED <<jobVars, revisions>> /\ worker'.sec \in {10, 30}
    BY <1>1, <1>5 DEF ConfigEdited, ConfigSeen, vars, testVars, runtimeVars
  <2> QED BY <1>2, <2>1, QuietJobs DEF jobVars
<1>6. CASE Restarts
  <2>1. Restart BY <1>6 DEF Restarts, PollPanics, ReadingPanics, SlicingPanics, Crash
  <2> QED BY <1>2, <2>1, RestartJobs
<1>7. CASE Reports BY <1>7, updateStatusJobs DEF Reports
<1> QED BY <1>3, <1>4, <1>5, <1>6, <1>7, BeginJobs, PollWaitsJobs, EnvironmentJobs
        DEF Next, Reconcile, PollWaits

ReadInv ==
  /\ \A k \in Keys : Obj(k).status = "Success" => ReadWhole(k)
  /\ Reporting /\ Obj(active).live => ReadWhole(active)

LEMMA ReadStays ==
  ASSUME JobsGrow, NEW k \in Keys, ReadWhole(k)
  PROVE  ReadWhole(k)'
<1>1. PICK j \in 1..Len(jobs[k]) : jobs[k][j].complete /\ ~ReadPanics(jobs[k][j].log)
  BY DEF ReadWhole
<1>2. j \in 1..Len(jobs'[k]) /\ jobs'[k][j] = jobs[k][j] BY DEF JobsGrow
<1> QED BY <1>1, <1>2 DEF ReadWhole

(* The tests are changed by the user and by the status write, nobody else. *)
LEMMA RevisionsComeBy ==
  ASSUME [Next]_vars
  PROVE  UNCHANGED revisions \/ Reports \/ \E k \in Keys : User(k)
<1>1. ASSUME NEW j \in Keys, Environment(j), ~User(j) PROVE UNCHANGED revisions
  BY <1>1 DEF Environment, Informer, InformerReceives, HandlerEnqueues, Resync,
              ResyncLags, Cluster, runtimeVars
<1>2. ASSUME NEW j \in Keys, Begin(j) PROVE UNCHANGED revisions
  BY <1>2 DEF Begin, BeginSkips, BeginFindsJob, BeginCreatesJob, BeginFails
<1> QED BY <1>1, <1>2, QuietSteps DEF Next, Reconcile, ConfigSeen, vars, testVars, runtimeVars

(* A test that is gone stays so, if none is made again under its name.     *)
LEMMA GoneStaysGone ==
  ASSUME TestInv, [Next]_vars, "recreate" \notin faults', NEW k \in Keys, Latest(k) # 1
  PROVE  Obj(k)'.live => Obj(k).live
<1>1. RuntimeTypeOK BY DEF TestInv, TestTypeOK
<1>2. CASE UNCHANGED revisions BY <1>2 DEF Obj, Latest
<1>3. ASSUME NEW j \in Keys, User(j) PROVE Obj(k)'.live => Obj(k).live
  <2>1. PICK object \in Object :
          /\ Store(j, object)
          /\ object.live => Latest(j) = 1 \/ (Obj(j).live /\ object.uid = Obj(j).uid)
    BY <1>1, <1>3, UserStoresOwn
  <2>2. Obj(j)' = object /\ \A i \in Keys \ {j} : revisions'[i] = revisions[i]
    BY <1>1, <2>1, StoreAppends
  <2> QED BY <2>1, <2>2 DEF Obj, Latest
<1>4. CASE Reports
  <2>1. /\ active \in Keys /\ worker \in Worker /\ worker.snap \in 1..Latest(active)
        /\ revisions[active][worker.snap] \in Object
    BY <1>4, SnapshotTyped DEF Reports, updateStatus
  <2> DEFINE object == [revisions[active][worker.snap] EXCEPT !.status = worker.verdict]
  <2>2. object \in Object /\ object.live = revisions[active][worker.snap].live
    BY <2>1 DEF Object, Worker
  <2> HIDE DEF object
  <2>3. UNCHANGED revisions \/ (worker.snap = Latest(active) /\ Store(active, object))
    BY <1>4 DEF Reports, updateStatus, WriteStatus, object
  <2>4. ASSUME NEW j \in Keys, j = active, worker.snap = Latest(j), Store(j, object)
        PROVE  Obj(k)'.live => Obj(k).live
    <3>1. Obj(j)' = object /\ \A i \in Keys \ {j} : revisions'[i] = revisions[i]
      BY <1>1, <2>2, <2>4, StoreAppends
    <3> QED BY <2>2, <2>4, <3>1 DEF Obj, Latest
  <2> QED BY <1>2, <2>1, <2>3, <2>4
<1> QED BY <1>2, <1>3, <1>4, RevisionsComeBy

(* The log that is read is the one of the test's Job, as it now is.        *)
LEMMA OwnLog ==
  ASSUME TestInv, JobsKept, JobsToldApart, ReadsLogs, Obj(active).live
  PROVE  /\ active \in Keys /\ JobObj(active).complete
         /\ logs' = JobObj(active).log /\ ~ReadPanics(JobObj(active).log)
<1>1. Polls /\ active \in Keys /\ CachedJob(active).live /\ CachedJob(active).complete
  BY PollingHoldsKey DEF ReadsLogs, PollReadsLogs, CanRead, Polls, Succeeded
<1>2. /\ JobObj(active).complete /\ JobObj(active).succeeded = 1
      /\ \A j \in Listed(active) : j = Len(jobs[active])
  BY <1>1, ReadEnded
<1>3. PICK log \in AnyLog : CanRead(log) /\ ~ReadPanics(log) /\ logs' = log
  BY DEF ReadsLogs, PollReadsLogs
<1>4. PICK j \in Listed(active) : log \in Printed(jobs[active][j]) BY <1>3 DEF CanRead
<1>5. log = JobObj(active).log BY <1>2, <1>4 DEF Printed, JobObj
<1> QED BY <1>1, <1>2, <1>3, <1>5

LEMMA NextReads ==
  ASSUME TestInv, JobsKept, JobsToldApart, JobsToldApart', ReadInv, [Next]_vars
  PROVE  ReadInv'
<1>1. JobsGrow /\ "recreate" \notin faults' BY NextGrows DEF JobsToldApart, Without
<1>2. ASSUME NEW k \in Keys, Obj(k)'.status = "Success" PROVE ReadWhole(k)'
  BY <1>1, <1>2, SuccessComes, ReadStays DEF ReadInv
<1>3. CASE ReadsLogs
  <2>1. UNCHANGED <<revisions, jobs, active>>
    BY <1>3, ReadsLogsDecides DEF runtimeVars, jobVars
  <2>2. ASSUME Obj(active).live PROVE ReadWhole(active)
    <3>1. active \in Keys /\ JobObj(active).complete /\ ~ReadPanics(JobObj(active).log)
      BY <1>3, <2>2, OwnLog
    <3>2. Len(jobs[active]) \in Nat /\ jobSeen[active] \in 1..Len(jobs[active])
      BY <3>1, JobsTyped DEF TestInv
    <3>3. Len(jobs[active]) \in 1..Len(jobs[active]) BY <3>2
    <3> QED BY <3>1, <3>3 DEF ReadWhole, JobObj
  <2>3. (Reporting /\ Obj(active).live => ReadWhole(active))'
    BY <2>1, <2>2 DEF Obj, Latest, ReadWhole
  <2> QED BY <1>2, <2>3 DEF ReadInv
<1>4. CASE Reporting /\ Held
  <2>1. active \in Keys /\ worker.snap \in 1..Latest(active) /\ worker.pc = "status"
    BY <1>4, SnapshotTyped DEF Reporting
  <2>2. Obj(active)'.live => Obj(active).live
    <3>1. CASE Reports
      <4>1. worker' # worker
        BY <2>1, <3>1 DEF Reports, updateStatus, Idle, TestInv, TestTypeOK, Worker
      <4> QED BY <1>4, <4>1 DEF Held
    <3>2. ASSUME NEW k \in Keys, User(k) PROVE Obj(active)'.live => Obj(active).live
      BY <1>1, <2>1, <3>2, UserLeavesGone
    <3>3. UNCHANGED revisions => Obj(active)'.live = Obj(active).live
      BY <1>4 DEF Held, Obj, Latest
    <3> QED BY <3>1, <3>2, <3>3, RevisionsComeBy
  <2>3. Obj(active)'.live => ReadWhole(active)'
    <3>1. ASSUME ReadWhole(active), NEW k \in Keys, k = active PROVE ReadWhole(k)'
      BY <1>1, <3>1, ReadStays
    <3> QED BY <1>4, <2>1, <2>2, <3>1 DEF ReadInv, Held, ReadWhole
  <2> QED BY <1>2, <2>3 DEF ReadInv
<1> QED BY <1>2, <1>3, <1>4, WorkComes DEF ReadInv

(* A Success is reported only of a Job that ran to its end and whose log   *)
(* the parser got through, however often it killed the process before, as  *)
(* long as no second Job can be mistaken for it.                           *)
THEOREM SuccessesAreRead == Spec => []SuccessIsRead
<1> DEFINE Kept == TestInv /\ JobsKept /\ (JobsToldApart => ReadInv)
<1>1. Init => Kept
  <2> SUFFICES ASSUME Init PROVE Kept OBVIOUS
  <2>1. \A k \in Keys : Obj(k).status # "Success"
    BY ResultsAssumption DEF Init, TestInit, RuntimeInit, Obj, Latest, Absent
  <2>2. ~Reporting BY DEF Init, TestInit, Idle, Reporting
  <2> QED BY <2>1, <2>2, InitInv, InitJobs DEF Init, ReadInv
<1>2. Kept /\ [Next]_vars => Kept'
  <2> SUFFICES ASSUME Kept, [Next]_vars PROVE Kept' OBVIOUS
  <2>1. JobsToldApart' => JobsToldApart BY FaultsAccumulate DEF JobsToldApart, Without
  <2> QED BY <2>1, NextKeeps, NextJobs, NextReads
<1>3. Kept => SuccessIsRead BY DEF SuccessIsRead, ReadInv
<1> QED BY <1>1, <1>2, <1>3, PTL DEF Spec

-----------------------------------------------------------------------------
(* If only one test was ever made, nothing but a log whose braces are out  *)
(* of order keeps its measurement from being filed: the worker that wrote  *)
(* the Success is still at it, or died of that log and never comes back.   *)
Missed(k) == Obj(k).live /\ Obj(k).status = "Success" /\ EntriesOf(k) = {}
PassedOver(k) ==
  /\ active # k
  /\ \A n \in seen[k]..Latest(k) : revisions[k][n].status # Blank
  /\ SlicePanics(JobObj(k).log)
Undisturbed == Without({"crash", "configedit", "configfails", "recreate", "jobdelete"})
Filing ==
  /\ active # NoKey => Latest(active) # 1
  /\ Len(config) # 1 => \E k \in Keys : Latest(k) # 1 /\ EntriesOf(k) # {}
  /\ (Reporting \/ worker.pc = "config") /\ Obj(active).live =>
       logs = NoLog \/ logs = JobObj(active).log
  /\ OnlyTest /\ worker.pc = "metrics" => EntriesOf(active) # {}
  /\ OnlyTest => \A k \in Keys :
       Missed(k) => (active = k /\ worker.pc = "config") \/ PassedOver(k)

(* Revisions come one at a time, and the cache only goes forward.          *)
LEMMA RevisionsGrow ==
  ASSUME TestInv, [Next]_vars
  PROVE  \A k \in Keys :
           /\ Latest(k) \in Nat /\ Latest(k) >= 1
           /\ Latest(k)' \in {Latest(k), Latest(k) + 1}
           /\ \A n \in 1..Latest(k) : revisions'[k][n] = revisions[k][n]
           /\ seen[k] \in 1..Latest(k) /\ seen'[k] \in Nat /\ seen'[k] >= seen[k]
<1>1. RuntimeTypeOK BY DEF TestInv, TestTypeOK
<1>2. \A k \in Keys : /\ Latest(k) \in Nat /\ Latest(k) >= 1
                      /\ seen[k] \in 1..Latest(k) /\ seen[k] \in Nat
  BY <1>1, ObjectsTyped DEF RuntimeTypeOK
<1>3. UNCHANGED revisions \/ \E j \in Keys : \E object \in Object : Store(j, object)
  <2>1. ASSUME NEW j \in Keys, User(j) PROVE \E object \in Object : Store(j, object)
    BY <1>1, <2>1, UserStores
  <2>2. CASE Reports
    <3>1. active \in Keys /\ worker \in Worker /\ revisions[active][worker.snap] \in Object
      BY <2>2, SnapshotTyped DEF Reports, updateStatus
    <3>2. [revisions[active][worker.snap] EXCEPT !.status = worker.verdict] \in Object
      BY <3>1 DEF Object, Worker
    <3> QED BY <2>2, <3>1, <3>2 DEF Reports, updateStatus, WriteStatus
  <2>3. ASSUME NEW j \in Keys, Environment(j), ~User(j) PROVE UNCHANGED revisions
    BY <2>3 DEF Environment, Informer, InformerReceives, HandlerEnqueues, Resync,
                ResyncLags, Cluster, runtimeVars
  <2>4. ASSUME NEW j \in Keys, Begin(j) PROVE UNCHANGED revisions
    BY <2>4 DEF Begin, BeginSkips, BeginFindsJob, BeginCreatesJob, BeginFails
  <2> QED BY <2>1, <2>2, <2>3, <2>4, QuietSteps
    DEF Next, Reconcile, ConfigSeen, vars, testVars, runtimeVars
<1>4. \A k \in Keys : /\ Latest(k)' \in {Latest(k), Latest(k) + 1}
                      /\ \A n \in 1..Latest(k) : revisions'[k][n] = revisions[k][n]
  <2>1. CASE UNCHANGED revisions BY <2>1 DEF Latest
  <2>2. ASSUME NEW j \in Keys, NEW object \in Object, Store(j, object)
        PROVE  \A k \in Keys : /\ Latest(k)' \in {Latest(k), Latest(k) + 1}
                               /\ \A n \in 1..Latest(k) : revisions'[k][n] = revisions[k][n]
    <3>1. /\ Latest(j)' = Latest(j) + 1
          /\ \A i \in Keys \ {j} : revisions'[i] = revisions[i]
          /\ \A i \in Keys : \A n \in 1..Latest(i) : revisions'[i][n] = revisions[i][n]
      BY <1>1, <2>2, StoreAppends
    <3> QED BY <3>1 DEF Latest
  <2> QED BY <1>3, <2>1, <2>2
<1>5. \A k \in Keys : seen'[k] \in Nat /\ seen'[k] >= seen[k]
  <2>1. CASE UNCHANGED seen BY <1>2, <2>1
  <2>2. CASE Restart
    <3>1. \A k \in Keys : seen'[k] = Latest(k) BY <2>2 DEF Restart, RuntimeRestarts
    <3> QED BY <1>2, <3>1
  <2>3. ASSUME NEW j \in Keys, Environment(j), ~UNCHANGED seen
        PROVE  \A k \in Keys : seen'[k] \in Nat /\ seen'[k] >= seen[k]
    <3>1. Informer(j)
      BY <2>3, <1>1, UserTyped DEF Environment, Cluster, runtimeVars
    <3>2. RuntimeTypeOK' /\ \A k \in Keys : seen[k] <= seen'[k]
      BY <1>1, <3>1, InformerTyped
    <3>3. \A k \in Keys : seen'[k] \in Nat BY <3>2 DEF RuntimeTypeOK
    <3> QED BY <1>2, <3>2, <3>3
  <2>4. ASSUME NEW j \in Keys, Begin(j) PROVE UNCHANGED seen
    BY <2>4 DEF Begin, BeginSkips, BeginFindsJob, BeginCreatesJob, BeginFails
  <2> QED BY <2>1, <2>2, <2>3, <2>4
    DEF Next, Reconcile, Reports, updateStatus, PollMissing, PollFailed, PollUnfinished,
        PollLogsFail, ReadsLogs, PollReadsLogs, updateConfigMap, writeResultToFile, Restarts,
        PollPanics, ReadingPanics, SlicingPanics, Crash, ConfigEdited, ConfigSeen, vars,
        testVars, runtimeVars
<1> QED BY <1>2, <1>4, <1>5

(* A log that a Job has is not taken back, unless the name gets a new Job. *)
LEMMA LogStays ==
  ASSUME TestInv, JobsKept, [Next]_vars, NEW k \in Keys,
         ~(Cached(k).live /\ Cached(k).status = Blank /\ active = NoKey)
  PROVE  JobObj(k)'.log = JobObj(k).log \/ JobObj(k).log = NoLog
<1>1. TestTypeOK /\ Ends BY DEF TestInv, JobsKept
<1>2. CASE UNCHANGED jobs BY <1>2 DEF JobObj
<1>3. ASSUME NEW j \in Keys, Cluster(j), ~UNCHANGED jobs
      PROVE  JobObj(k)'.log = JobObj(k).log \/ JobObj(k).log = NoLog
  <2>1. PICK job \in Job : StoreJob(j, job) /\ Follows(JobObj(j), job)
    BY <1>1, <1>3, ClusterStores
  <2>2. JobObj(j)' = job /\ \A i \in Keys \ {j} : jobs'[i] = jobs[i]
    BY <1>1, <2>1, StoreJobShape
  <2> QED BY <2>1, <2>2 DEF Follows, JobObj
<1>4. ASSUME NEW j \in Keys, Begin(j), ~UNCHANGED jobs PROVE JobObj(k)' = JobObj(k)
  <2>1. PICK job \in Job : StoreJob(j, job) /\ Cached(j).live /\ Cached(j).status = Blank
                           /\ active = NoKey
    BY <1>1, <1>4, NewJobTyped
    DEF Begin, BeginSkips, BeginFindsJob, BeginCreatesJob, BeginFails, QueueGet, jobVars
  <2>2. k # j /\ \A i \in Keys \ {j} : jobs'[i] = jobs[i] BY <1>1, <2>1, StoreJobShape
  <2> QED BY <2>2 DEF JobObj
<1> QED BY <1>2, <1>3, <1>4
  DEF Next, Reconcile, Environment, Reports, updateStatus, PollMissing, PollFailed,
      PollUnfinished, PollLogsFail, ReadsLogs, PollReadsLogs, updateConfigMap,
      writeResultToFile, Restarts, PollPanics, ReadingPanics, SlicingPanics, Crash, Restart,
      ConfigEdited, ConfigSeen, vars, testVars, jobVars

LEMMA KeyComes ==
  ASSUME TestInv, [Next]_vars
  PROVE  \/ active' \in {NoKey, active}
         \/ \E k \in Keys :
              active' = k /\ active = NoKey /\ Cached(k).live /\ Cached(k).status = Blank
<1>1. ASSUME NEW k \in Keys, Begin(k), active' # active
      PROVE  active' = k /\ active = NoKey /\ Cached(k).live /\ Cached(k).status = Blank
  BY <1>1 DEF Begin, BeginSkips, BeginFindsJob, BeginCreatesJob, BeginFails, QueueGet
<1>2. ASSUME NEW k \in Keys, Environment(k) PROVE active' = active
  BY <1>2 DEF Environment, Cluster, User, UserCreates, UserEdits, UserDeletes, Informer,
              InformerReceives, HandlerEnqueues, Resync, ResyncLags, runtimeVars
<1>3. \/ active' \in {NoKey, active}
      \/ \E k \in Keys : Begin(k) /\ active' # active
  BY <1>2 DEF Next, Reconcile, Reports, updateStatus, PollMissing, PollFailed, PollUnfinished,
              PollLogsFail, ReadsLogs, PollReadsLogs, updateConfigMap, writeResultToFile,
              Restarts, PollPanics, ReadingPanics, SlicingPanics, Crash, Restart,
              RuntimeRestarts, Requeue, Done, ConfigEdited, ConfigSeen, vars, testVars,
              runtimeVars
<1> QED BY <1>1, <1>3

LEMMA ConfigGoes ==
  ASSUME TestInv, [Next]_vars, worker.pc = "config", "crash" \notin faults'
  PROVE  updateConfigMap \/ (SlicingPanics /\ UNCHANGED config) \/ Held
<1>1. ASSUME NEW k \in Keys, Environment(k), UNCHANGED configVars PROVE Held
  BY <1>1 DEF Environment, Cluster, User, UserCreates, UserEdits, UserDeletes, Informer,
              InformerReceives, HandlerEnqueues, Resync, ResyncLags, runtimeVars, configVars, Held
<1>2. ASSUME NEW k \in Keys, Begin(k) PROVE FALSE
  BY <1>2 DEF Begin, BeginSkips, BeginFindsJob, BeginCreatesJob, BeginFails, QueueGet, TestInv,
              TestTypeOK
<1> QED BY <1>1, <1>2
  DEF Next, Reconcile, Reports, updateStatus, PollMissing, PollFailed, PollUnfinished,
      PollLogsFail, ReadsLogs, PollReadsLogs, writeResultToFile, Restarts, PollPanics,
      ReadingPanics, CanRead, Polls, Crash, Disturb, ConfigEdited, ConfigSeen, vars, testVars,
      runtimeVars, configVars, Held

LEMMA updateConfigMapFiles ==
  ASSUME TestInv, ConfigTypeOK, Undisturbed', updateConfigMap, NEW k \in Keys, k = active
  PROVE  EntriesOf(k)' # {} \/ (UNCHANGED config /\ Len(config) # 1)
<1>1. CASE UNCHANGED config /\ configSeen # Len(config)
  <2>1. ASSUME Len(config) = 1 PROVE FALSE
    <3>1. configSeen \in 1..1 BY <2>1 DEF ConfigTypeOK
    <3>2. configSeen = 1 BY <3>1
    <3> QED BY <1>1, <2>1, <3>2
  <2> QED BY <1>1, <2>1
<1>2. CASE AddEntry(Data, k)
  <2>1. PICK at \in Nat : Data' = Data \cup {[test |-> k, at |-> at]}
    BY <1>2, AddEntryAppends
  <2>2. [test |-> k, at |-> at] \in EntriesOf(k)' BY <2>1 DEF EntriesOf
  <2> QED BY <2>2
<1> QED BY <1>1, <1>2 DEF updateConfigMap, Undisturbed, Without, Disturb, Data

LEMMA ConfigComes ==
  ASSUME TestInv, ConfigTypeOK, Undisturbed', [Next]_vars, ~UNCHANGED config
  PROVE  updateConfigMap
BY DEF Next, Reconcile, ReadsLogs, writeResultToFile, Restarts, ConfigEdited, ConfigSeen,
       Undisturbed, Without, Disturb, configVars, vars

LEMMA NextFiles ==
  ASSUME TestInv, ConfigTypeOK, JobsKept, Filing, Undisturbed', [Next]_vars
  PROVE  Filing'
<1>1. /\ OneIncarnation /\ JobsToldApart
      /\ "crash" \notin faults' /\ "recreate" \notin faults'
  <2>1. faults \subseteq faults' BY FaultsAccumulate
  <2> QED BY <2>1 DEF Undisturbed, Without, JobsKept, JobsToldApart
<1>2. \A k \in Keys : Latest(k) # 1 => Latest(k)' # 1 BY RevisionsGrow
<1>3. \A k \in Keys : EntriesOf(k) # {} => EntriesOf(k)' # {}
  <2>1. Data \subseteq Data' BY ConfigKept
  <2> QED BY <2>1 DEF EntriesOf
<1>4. OnlyTest' => OnlyTest
  <2>1. \A k \in Keys : Latest(k) > 1 => Latest(k)' > 1 BY RevisionsGrow
  <2> QED BY <2>1 DEF OnlyTest
<1>5. active' # NoKey => (Latest(active) # 1)'
  <2> SUFFICES ASSUME NEW k \in Keys, active' = k PROVE Latest(k)' # 1
    BY NextKeeps DEF TestInv, TestTypeOK, RuntimeTypeOK, Latest
  <2>1. CASE active = k BY <1>2, <2>1, KeysAssumption DEF Filing
  <2>2. CASE Cached(k).live
    <3>1. seen[k] \in 1..Latest(k) BY RevisionsGrow
    <3> QED BY <1>1, <1>2, <2>2, <3>1 DEF OneIncarnation, BelongsTo, Cached
  <2> QED BY <2>1, <2>2, KeyComes, KeysAssumption
<1>6. Len(config') # 1 => \E k \in Keys : Latest(k)' # 1 /\ EntriesOf(k)' # {}
  <2>1. CASE UNCHANGED config BY <1>2, <1>3, <2>1 DEF Filing
  <2>2. CASE updateConfigMap /\ ~UNCHANGED config
    <3>1. active \in Keys /\ active # NoKey
      BY <2>2, PollingHoldsKey, KeysAssumption DEF updateConfigMap
    <3>2. Latest(active) # 1 BY <3>1 DEF Filing
    <3>3. \E k \in Keys : Latest(k) # 1 /\ EntriesOf(k)' # {}
      BY <2>2, <3>1, <3>2, updateConfigMapFiles
    <3> QED BY <1>2, <3>3
  <2> QED BY <2>1, <2>2, ConfigComes
<1>7. (Reporting' \/ worker'.pc = "config") /\ Obj(active)'.live =>
        logs' = NoLog \/ logs' = JobObj(active)'.log
  <2>1. CASE ReadsLogs
    <3>1. UNCHANGED <<revisions, jobs, active>>
      BY <2>1, ReadsLogsDecides DEF runtimeVars, jobVars
    <3>2. Obj(active).live => logs' = JobObj(active).log BY <1>1, <2>1, OwnLog
    <3> QED BY <3>1, <3>2 DEF JobObj, Obj, Latest
  <2>2. CASE (Reporting \/ worker.pc = "config") /\ UNCHANGED <<active, logs>>
    <3>1. active \in Keys /\ active # NoKey
      BY <2>2, PollingHoldsKey, KeysAssumption DEF Reporting
    <3>2. ASSUME NEW k \in Keys, k = active
          PROVE  JobObj(k)'.log = JobObj(k).log \/ JobObj(k).log = NoLog
      BY <3>1, <3>2, LogStays
    <3>3. JobObj(active)'.log = JobObj(active).log \/ JobObj(active).log = NoLog
      BY <2>2, <3>1, <3>2 DEF JobObj
    <3>4. ASSUME NEW k \in Keys, k = active PROVE Obj(k)'.live => Obj(k).live
      BY <1>1, <3>1, <3>4, GoneStaysGone DEF Filing
    <3>5. Obj(active)'.live => Obj(active).live BY <2>2, <3>1, <3>4 DEF Obj, Latest
    <3> QED BY <2>2, <3>3, <3>5 DEF Filing
  <2> QED BY <2>1, <2>2, WorkComes DEF Held
<1>8. OnlyTest' /\ worker'.pc = "metrics" => EntriesOf(active)' # {}
  <2> SUFFICES ASSUME OnlyTest', worker'.pc = "metrics" PROVE EntriesOf(active)' # {} OBVIOUS
  <2>1. CASE updateConfigMap
    <3>1. active \in Keys /\ active # NoKey /\ UNCHANGED active
      BY <2>1, PollingHoldsKey, KeysAssumption DEF updateConfigMap
    <3> SUFFICES ASSUME NEW k \in Keys, k = active PROVE EntriesOf(k)' # {}
      BY <3>1 DEF EntriesOf
    <3>2. CASE UNCHANGED config /\ Len(config) # 1
      <4>1. PICK j \in Keys : Latest(j) # 1 /\ EntriesOf(j) # {} BY <3>2 DEF Filing
      <4>2. Latest(j) > 1 /\ Latest(k) > 1 BY <3>1, <4>1, RevisionsGrow DEF Filing
      <4>3. j = k BY <1>4, <4>2 DEF OnlyTest
      <4> QED BY <1>3, <4>1, <4>3
    <3> QED BY <2>1, <3>2, updateConfigMapFiles
  <2>2. CASE worker.pc = "metrics" /\ Held
    <3>1. active \in Keys BY <2>2, PollingHoldsKey
    <3>2. EntriesOf(active) # {} BY <1>4, <2>2 DEF Filing
    <3> SUFFICES ASSUME NEW k \in Keys, k = active PROVE EntriesOf(k)' # {}
      BY <2>2, <3>1 DEF EntriesOf, Held
    <3> QED BY <1>3, <3>2
  <2> QED BY <2>1, <2>2, WorkComes
<1>9. ASSUME OnlyTest', NEW k \in Keys, Missed(k)'
      PROVE  (active' = k /\ worker'.pc = "config") \/ PassedOver(k)'
  <2>1. EntriesOf(k) = {} /\ EntriesOf(k)' = {} /\ Obj(k)'.status = "Success" /\ Obj(k)'.live
    BY <1>3, <1>9 DEF Missed
  <2>2. CASE Reports /\ Reporting /\ active = k
    <3>1. worker \in Worker BY <2>2, PollingHoldsKey DEF Reporting
    <3> QED BY <2>2, <3>1 DEF Reports, updateStatus, Reporting, Worker
  <2>3. CASE Missed(k) /\ active = k /\ worker.pc = "config"
    <3>1. CASE updateConfigMap
      <4>1. worker \in Worker /\ UNCHANGED active /\ worker'.pc = "metrics"
        BY <2>3, <3>1, PollingHoldsKey DEF updateConfigMap, Worker
      <4> QED BY <1>8, <1>9, <2>1, <2>3, <4>1 DEF EntriesOf
    <3>2. CASE SlicingPanics
      <4>1. /\ active' = NoKey /\ seen'[k] = Latest(k) /\ UNCHANGED <<revisions, jobs>>
            /\ SlicePanics(logs)
        BY <3>2 DEF SlicingPanics, Restart, RuntimeRestarts
      <4>2. ~SlicePanics(NoLog) BY LogsAssumption DEF SlicePanics, Opening
      <4>3. SlicePanics(JobObj(k).log) BY <2>3, <4>1, <4>2 DEF Filing, Missed
      <4>4. \A n \in Latest(k)..Latest(k) : n = Latest(k)
        <5>1. Latest(k) \in Nat BY RevisionsGrow
        <5> QED BY <5>1
      <4>5. Obj(k).status # Blank BY <2>3, ResultsAssumption DEF Missed
      <4> QED BY <4>1, <4>3, <4>4, <4>5, KeysAssumption DEF PassedOver, JobObj, Latest, Obj
    <3>3. CASE Held BY <2>3, <3>3 DEF Held
    <3> QED BY <1>1, <2>3, <3>1, <3>2, <3>3, ConfigGoes
  <2>4. CASE PassedOver(k)
    <3>1. /\ Latest(k) \in Nat /\ Latest(k) >= 1 /\ Latest(k)' \in {Latest(k), Latest(k) + 1}
          /\ \A n \in 1..Latest(k) : revisions'[k][n] = revisions[k][n]
          /\ seen[k] \in 1..Latest(k) /\ seen'[k] \in Nat /\ seen'[k] >= seen[k]
      BY RevisionsGrow
    <3>2. Cached(k).status # Blank
      <4>1. seen[k] \in seen[k]..Latest(k) BY <3>1
      <4> QED BY <2>4, <4>1 DEF PassedOver, Cached
    <3>3. active' # k BY <2>4, <3>2, KeyComes, KeysAssumption DEF PassedOver
    <3>4. ASSUME NEW n \in seen'[k]..Latest(k)' PROVE revisions'[k][n].status # Blank
      <4>1. CASE n = Latest(k)' BY <2>1, <4>1, ResultsAssumption DEF Obj
      <4>2. CASE n # Latest(k)'
        <5>1. n \in seen[k]..Latest(k) /\ n \in 1..Latest(k) BY <3>1, <4>2
        <5> QED BY <2>4, <3>1, <5>1 DEF PassedOver
      <4> QED BY <4>1, <4>2
    <3>5. SlicePanics(JobObj(k)'.log)
      <4>1. ~SlicePanics(NoLog) BY LogsAssumption DEF SlicePanics, Opening
      <4>2. JobObj(k)'.log = JobObj(k).log BY <2>4, <3>2, <4>1, LogStays DEF PassedOver
      <4> QED BY <2>4, <4>2 DEF PassedOver
    <3> QED BY <3>3, <3>4, <3>5 DEF PassedOver
  <2>5. Missed(k) \/ (Reports /\ Reporting /\ active = k)
    BY <2>1, SuccessComes DEF Missed
  <2> QED BY <1>4, <1>9, <2>2, <2>3, <2>4, <2>5 DEF Filing
<1> QED BY <1>5, <1>6, <1>7, <1>8, <1>9 DEF Filing

(* The measurement of a finished test is filed, if it is the only test     *)
(* there ever was, nobody else writes the ConfigMap, the log has its       *)
(* braces in order and the process lives on: nothing else loses it.        *)
THEOREM FiledIfAlone == Spec => []AloneIsFiled
<1> DEFINE Kept == TestInv /\ ConfigTypeOK /\ JobsKept /\ (Undisturbed => Filing)
<1>1. Init => Kept
  <2> SUFFICES ASSUME Init PROVE Kept OBVIOUS
  <2>1. \A k \in Keys : Obj(k).status # "Success"
    BY ResultsAssumption DEF Init, TestInit, RuntimeInit, Obj, Latest, Absent
  <2>2. worker.pc = "idle" /\ active = NoKey
    BY DEF Init, TestInit, RuntimeInit, Idle
  <2>3. Len(config) = 1 /\ ConfigTypeOK
    <3>1. <<{}>> \in Seq(SUBSET Entry) /\ Len(<<{}>>) = 1 OBVIOUS
    <3> QED BY <3>1 DEF Init, ConfigTypeOK, AnyLog
  <2> QED BY <2>1, <2>2, <2>3, InitInv, InitJobs DEF Init, Filing, Reporting, Missed
<1>2. Kept /\ [Next]_vars => Kept'
  <2> SUFFICES ASSUME Kept, [Next]_vars PROVE Kept' OBVIOUS
  <2>1. Undisturbed' => Undisturbed BY FaultsAccumulate DEF Undisturbed, Without
  <2> QED BY <2>1, NextKeeps, NextJobs, ConfigKept, NextFiles
<1>3. Kept => AloneIsFiled
  <2> SUFFICES ASSUME Kept, Undisturbed, OnlyTest, NEW k \in Keys,
                      ~SlicePanics(JobObj(k).log), Missed(k), active # k
               PROVE  FALSE
    BY DEF AloneIsFiled, FinishedIsFiled, Missed, Undisturbed
  <2> QED BY DEF Filing, PassedOver
<1> QED BY <1>1, <1>2, <1>3, PTL DEF Spec
-----------------------------------------------------------------------------
(* The text of lines, one line after the other.  The recursion behind it   *)
(* exists, and so it follows its equation.                                 *)
With(text, line) == text \o line.words
Joining(printed, n, upTo) ==
  upTo = [i \in 0..n |-> IF i = 0 THEN <<>> ELSE With(upTo[i - 1], printed[i])]

LEMMA JoiningExists ==
  ASSUME NEW printed, NEW n \in Nat
  PROVE  \E upTo : Joining(printed, n, upTo)
<1> DEFINE Defined == {m \in Nat : \E upTo : Joining(printed, m, upTo)}
<1>1. 0 \in Defined
  <2>1. Joining(printed, 0, [i \in 0..0 |-> <<>>]) BY DEF Joining
  <2> QED BY <2>1
<1>2. ASSUME NEW m \in Nat, m \in Defined PROVE m + 1 \in Defined
  <2>1. PICK g : Joining(printed, m, g) BY <1>2
  <2> DEFINE h == [i \in 0..(m + 1) |-> IF i = m + 1 THEN With(g[m], printed[m + 1]) ELSE g[i]]
  <2>2. \A i \in 0..m : g[i] = IF i = 0 THEN <<>> ELSE With(g[i - 1], printed[i])
    BY <2>1 DEF Joining
  <2>3. \A i \in 0..m : h[i] = g[i] OBVIOUS
  <2>4. h[m + 1] = With(h[m], printed[m + 1]) OBVIOUS
  <2>5. h = [i \in 0..(m + 1) |-> h[i]] OBVIOUS
  <2> HIDE DEF h
  <2>6. ASSUME NEW i \in 0..(m + 1)
        PROVE  h[i] = IF i = 0 THEN <<>> ELSE With(h[i - 1], printed[i])
    <3>1. CASE i = m + 1 BY <2>4, <3>1
    <3>2. CASE i = 0 BY <2>2, <2>3, <3>2
    <3>3. CASE i # m + 1 /\ i # 0
      <4>1. i \in 0..m /\ i - 1 \in 0..m BY <3>3
      <4> QED BY <2>2, <2>3, <3>3, <4>1
    <3> QED BY <3>1, <3>2, <3>3
  <2>7. Joining(printed, m + 1, h) BY <2>5, <2>6 DEF Joining
  <2> QED BY <2>7
<1> HIDE DEF Defined
<1>3. Nat \subseteq Defined BY <1>1, <1>2, NatInduces
<1> QED BY <1>3 DEF Defined

LEMMA TextStepwise ==
  ASSUME NEW printed, Len(printed) \in Nat
  PROVE  /\ TextUpTo(printed)[0] = <<>>
         /\ \A i \in 1..Len(printed) :
              TextUpTo(printed)[i] = With(TextUpTo(printed)[i - 1], printed[i])
<1>1. TextUpTo(printed) = CHOOSE upTo : Joining(printed, Len(printed), upTo)
  BY DEF TextUpTo, Joining, With
<1>2. Joining(printed, Len(printed), TextUpTo(printed)) BY <1>1, JoiningExists
<1>3. ASSUME NEW upTo, Joining(printed, Len(printed), upTo)
      PROVE  /\ upTo[0] = <<>>
             /\ \A i \in 1..Len(printed) : upTo[i] = With(upTo[i - 1], printed[i])
  <2>1. \A i \in 0..Len(printed) : upTo[i] = IF i = 0 THEN <<>> ELSE With(upTo[i - 1], printed[i])
    BY <1>3 DEF Joining
  <2> QED BY <2>1
<1> QED BY <1>2, <1>3

(* What a line may be made of.                                             *)
Vocabulary == Words \cup QpsWords \cup Codes \cup Layout

LEMMA LineTyped ==
  ASSUME NEW line \in Line
  PROVE  line.words \in Seq(Vocabulary)
<1>1. AnyText \subseteq Seq(Vocabulary)
  BY SeqMonotonic DEF AnyText, Vocabulary, Layout
<1>2. ASSUME NEW p \in Percentiles, NEW v \in Words PROVE Target(p, v).words \in Seq(Vocabulary)
  BY DEF Target, Vocabulary, Layout
<1>3. ASSUME NEW c \in Words \cup Codes, NEW v \in Words PROVE Code(c, v).words \in Seq(Vocabulary)
  BY DEF Code, Vocabulary, Layout
<1>4. ASSUME NEW v \in Words PROVE Total(v).words \in Seq(Vocabulary)
  BY DEF Total, Vocabulary, Layout
<1>5. ASSUME NEW w \in QpsWords PROVE Rate(w).words \in Seq(Vocabulary)
  BY DEF Rate, Vocabulary, Layout
<1>6. CASE line \in {Target(p, v) : p \in Percentiles, v \in Words} BY <1>2, <1>6
<1>7. CASE line \in {Code(c, v) : c \in Words \cup Codes, v \in Words} BY <1>3, <1>7
<1>8. CASE line \in {Total(v) : v \in Words} \cup {Rate(w) : w \in QpsWords} BY <1>4, <1>5, <1>8
<1>9. CASE line \in [sets: {"json"}, to: {<<>>}, words: JsonText]
  <2>1. line.words \in AnyText BY <1>9 DEF JsonText
  <2> QED BY <1>1, <2>1
<1>10. CASE line \in [sets: {"none"}, to: {<<>>}, words: AnyText]
  <2>1. line.words \in AnyText BY <1>10
  <2> QED BY <1>1, <2>1
<1> QED BY <1>6, <1>7, <1>8, <1>9, <1>10 DEF Line

(* A list of lines as one text: start[i] words before line i + 1.          *)
Start(printed) == [i \in 0..Len(printed) |-> Len(TextUpTo(printed)[i])]

LEMMA TextTyped ==
  ASSUME NEW printed \in Seq(Line)
  PROVE  \A i \in 0..Len(printed) : TextUpTo(printed)[i] \in Seq(Vocabulary)
<1> DEFINE T == TextUpTo(printed)
<1>1. Len(printed) \in Nat /\ \A i \in 1..Len(printed) : printed[i].words \in Seq(Vocabulary)
  BY ElementOfSeq, LenProperties, LineTyped
<1>2. T[0] = <<>> /\ \A i \in 1..Len(printed) : T[i] = With(T[i - 1], printed[i])
  BY <1>1, TextStepwise
<1> DEFINE Fine == {i \in Nat : i <= Len(printed) => T[i] \in Seq(Vocabulary)}
<1> HIDE DEF T
<1>3. 0 \in Fine BY <1>2, EmptySeq
<1>4. ASSUME NEW i \in Nat, i \in Fine PROVE i + 1 \in Fine
  <2> SUFFICES ASSUME i + 1 <= Len(printed) PROVE T[i + 1] \in Seq(Vocabulary) OBVIOUS
  <2>1. T[i] \in Seq(Vocabulary) BY <1>1, <1>4
  <2>2. i + 1 \in 1..Len(printed) /\ i + 1 - 1 = i BY <1>1
  <2>3. T[i + 1] = With(T[i], printed[i + 1]) BY <1>2, <2>2
  <2>4. printed[i + 1].words \in Seq(Vocabulary) BY <1>1, <2>2
  <2>5. With(T[i], printed[i + 1]) \in Seq(Vocabulary) BY <2>1, <2>4, ConcatProperties DEF With
  <2> QED BY <2>3, <2>5
<1> HIDE DEF Fine
<1>5. Nat \subseteq Fine BY <1>3, <1>4, NatInduces
<1> QED BY <1>1, <1>5 DEF Fine, T

LEMMA StartGrows ==
  ASSUME NEW printed \in Seq(Line)
  PROVE  /\ Start(printed) \in [0..Len(printed) -> Nat]
         /\ Start(printed)[0] = 0
         /\ \A i \in 1..Len(printed) :
              Start(printed)[i] = Start(printed)[i - 1] + Len(printed[i].words)
         /\ \A i, j \in 0..Len(printed) : i <= j => Start(printed)[i] <= Start(printed)[j]
<1> DEFINE T == TextUpTo(printed)
           S == Start(printed)
<1>1. Len(printed) \in Nat /\ \A i \in 1..Len(printed) : printed[i].words \in Seq(Vocabulary)
  BY ElementOfSeq, LenProperties, LineTyped
<1>2. T[0] = <<>> /\ \A i \in 1..Len(printed) : T[i] = With(T[i - 1], printed[i])
  BY <1>1, TextStepwise
<1>3. \A i \in 0..Len(printed) : T[i] \in Seq(Vocabulary) BY TextTyped
<1>4. S = [i \in 0..Len(printed) |-> Len(T[i])] BY DEF Start
<1> HIDE DEF T, S
<1>5. S \in [0..Len(printed) -> Nat] BY <1>3, <1>4, LenProperties
<1>6. S[0] = 0 BY <1>1, <1>2, <1>4, EmptySeq
<1>7. ASSUME NEW i \in 1..Len(printed) PROVE S[i] = S[i - 1] + Len(printed[i].words)
  <2>1. i \in 0..Len(printed) /\ i - 1 \in 0..Len(printed) BY <1>1
  <2>2. T[i] = With(T[i - 1], printed[i]) BY <1>2
  <2>3. T[i - 1] \in Seq(Vocabulary) /\ printed[i].words \in Seq(Vocabulary) BY <1>1, <1>3, <2>1
  <2>4. Len(T[i - 1] \o printed[i].words) = Len(T[i - 1]) + Len(printed[i].words)
    BY <2>3, ConcatProperties
  <2>5. Len(T[i]) = Len(T[i - 1]) + Len(printed[i].words) BY <2>2, <2>4 DEF With
  <2> QED BY <1>4, <2>1, <2>5
<1>8. ASSUME NEW i \in 0..Len(printed)
      PROVE  \A j \in 0..Len(printed) : i <= j => S[i] <= S[j]
  <2> DEFINE After == {d \in Nat : i + d <= Len(printed) => S[i] <= S[i + d]}
  <2>1. 0 \in After BY <1>5
  <2>2. ASSUME NEW d \in Nat, d \in After PROVE d + 1 \in After
    <3> SUFFICES ASSUME i + d + 1 <= Len(printed) PROVE S[i] <= S[i + (d + 1)] OBVIOUS
    <3>1. i + d + 1 \in 1..Len(printed) /\ i + d \in 0..Len(printed) /\ i + d + 1 - 1 = i + d
      BY <1>1
    <3>2. S[i + d + 1] = S[i + d] + Len(printed[i + d + 1].words) BY <1>7, <3>1
    <3>3. Len(printed[i + d + 1].words) \in Nat BY <1>1, <3>1, LenProperties
    <3>4. S[i] <= S[i + d] BY <1>1, <2>2, <3>1
    <3>5. S[i] \in Nat /\ S[i + d] \in Nat BY <1>5, <3>1
    <3>6. i + (d + 1) = i + d + 1 OBVIOUS
    <3> QED BY <3>2, <3>3, <3>4, <3>5, <3>6
  <2> HIDE DEF After
  <2>3. Nat \subseteq After BY <2>1, <2>2, NatInduces
  <2>4. ASSUME NEW j \in 0..Len(printed), i <= j PROVE S[i] <= S[j]
    <3>1. j - i \in Nat /\ i + (j - i) = j BY <1>1, <2>4
    <3>2. j - i \in After BY <2>3, <3>1
    <3> QED BY <1>1, <3>1, <3>2 DEF After
  <2> QED BY <2>4
<1> QED BY <1>5, <1>6, <1>7, <1>8 DEF S

LEMMA WithKeeps ==
  ASSUME NEW text \in Seq(Vocabulary), NEW line, line.words \in Seq(Vocabulary),
         NEW q \in 1..Len(text)
  PROVE  With(text, line)[q] = text[q]
<1>1. Len(text) \in Nat /\ Len(line.words) \in Nat BY LenProperties
<1>2. q \in 1..(Len(text) + Len(line.words)) /\ q <= Len(text) BY <1>1
<1> QED BY <1>2, ConcatProperties DEF With

LEMMA WithAdds ==
  ASSUME NEW text \in Seq(Vocabulary), NEW line, line.words \in Seq(Vocabulary),
         NEW o \in 1..Len(line.words), NEW q, q = Len(text) + o
  PROVE  With(text, line)[q] = line.words[o]
<1>1. Len(text) \in Nat /\ Len(line.words) \in Nat BY LenProperties
<1>2. q \in 1..(Len(text) + Len(line.words)) /\ ~(q <= Len(text)) /\ q - Len(text) = o BY <1>1
<1> QED BY <1>2, ConcatProperties DEF With

(* Each word of the text is in one place of one line.                      *)
LEMMA WordAt ==
  ASSUME NEW printed \in Seq(Line), NEW i \in 1..Len(printed), NEW o \in 1..Len(printed[i].words)
  PROVE  TextUpTo(printed)[Len(printed)][Start(printed)[i - 1] + o] = printed[i].words[o]
<1> DEFINE T == TextUpTo(printed)
           S == Start(printed)
           q == S[i - 1] + o
<1>1. Len(printed) \in Nat /\ \A j \in 1..Len(printed) : printed[j].words \in Seq(Vocabulary)
  BY ElementOfSeq, LenProperties, LineTyped
<1>2. \A j \in 1..Len(printed) : TextUpTo(printed)[j] = With(TextUpTo(printed)[j - 1], printed[j])
  BY <1>1, TextStepwise
<1>3. \A j \in 0..Len(printed) : T[j] \in Seq(Vocabulary) /\ S[j] = Len(T[j])
  BY TextTyped DEF Start
<1>4. /\ \A j \in 0..Len(printed) : S[j] \in Nat
      /\ S[i] = S[i - 1] + Len(printed[i].words)
      /\ \A j, l \in 0..Len(printed) : j <= l => S[j] <= S[l]
  BY StartGrows
<1>5. i - 1 \in 0..Len(printed) /\ i \in 0..Len(printed) BY <1>1
<1>6. /\ o \in Nat /\ Len(printed[i].words) \in Nat /\ S[i - 1] \in Nat
      /\ q \in Nat /\ q >= 1 /\ q <= S[i] /\ q = S[i - 1] + o
  BY <1>1, <1>4, <1>5, LenProperties
<1>7. \A j \in 1..Len(printed) : T[j] = With(T[j - 1], printed[j]) BY <1>2
<1> HIDE DEF T, S, q
<1>8. T[i][q] = printed[i].words[o]
  <2>1. T[i] = With(T[i - 1], printed[i]) BY <1>7
  <2>2. /\ T[i - 1] \in Seq(Vocabulary) /\ printed[i].words \in Seq(Vocabulary)
        /\ S[i - 1] = Len(T[i - 1])
    BY <1>1, <1>3, <1>5
  <2>3. q = Len(T[i - 1]) + o BY <1>6, <2>2
  <2> DEFINE text == T[i - 1]
             line == printed[i]
  <2>4. text \in Seq(Vocabulary) /\ line.words \in Seq(Vocabulary) BY <2>2
  <2>5. o \in 1..Len(line.words) /\ q = Len(text) + o BY <2>3
  <2> HIDE DEF text, line
  <2>6. With(text, line)[q] = line.words[o] BY <2>4, <2>5, WithAdds
  <2> QED BY <2>1, <2>6 DEF text, line
<1> DEFINE Kept == {d \in Nat : i + d <= Len(printed) => T[i + d][q] = printed[i].words[o]}
<1>9. 0 \in Kept BY <1>8
<1>10. ASSUME NEW d \in Nat, d \in Kept PROVE d + 1 \in Kept
  <2> SUFFICES ASSUME i + (d + 1) <= Len(printed) PROVE T[i + (d + 1)][q] = printed[i].words[o]
    OBVIOUS
  <2>1. /\ i + (d + 1) \in 1..Len(printed) /\ i + d \in 0..Len(printed)
        /\ i + (d + 1) - 1 = i + d /\ i <= i + d
    BY <1>1
  <2>2. T[i + (d + 1)] = With(T[i + d], printed[i + (d + 1)]) BY <1>7, <2>1
  <2>3. T[i + d] \in Seq(Vocabulary) /\ printed[i + (d + 1)].words \in Seq(Vocabulary)
    BY <1>1, <1>3, <2>1
  <2>4. S[i] <= S[i + d] /\ S[i + d] = Len(T[i + d]) BY <1>3, <1>4, <1>5, <2>1
  <2>5. q \in 1..Len(T[i + d])
    <3>1. S[i] \in Nat /\ S[i + d] \in Nat BY <1>4, <1>5, <2>1
    <3> QED BY <1>6, <2>4, <3>1
  <2>6. T[i + (d + 1)][q] = T[i + d][q] BY <2>2, <2>3, <2>5, WithKeeps
  <2>7. T[i + d][q] = printed[i].words[o] BY <1>1, <1>10, <2>1
  <2> QED BY <2>6, <2>7
<1> HIDE DEF Kept
<1>11. Nat \subseteq Kept BY <1>9, <1>10, NatInduces
<1>12. Len(printed) - i \in Nat /\ i + (Len(printed) - i) = Len(printed) BY <1>1
<1>13. Len(printed) - i \in Kept BY <1>11, <1>12
<1> QED BY <1>1, <1>12, <1>13 DEF Kept, T, S, q

LEMMA LineAt ==
  ASSUME NEW printed \in Seq(Line), NEW q \in 1..Start(printed)[Len(printed)]
  PROVE  \E i \in 1..Len(printed) : \E o \in 1..Len(printed[i].words) :
           q = Start(printed)[i - 1] + o
<1> DEFINE S == Start(printed)
           Reached == {i \in 0..Len(printed) : q <= S[i]}
<1>1. Len(printed) \in Nat BY LenProperties
<1>2. /\ \A i \in 0..Len(printed) : S[i] \in Nat
      /\ S[0] = 0
      /\ \A i \in 1..Len(printed) : S[i] = S[i - 1] + Len(printed[i].words)
  BY StartGrows
<1>3. \A i \in 1..Len(printed) : Len(printed[i].words) \in Nat
  BY ElementOfSeq, LineTyped, LenProperties
<1>4. q \in Nat /\ q >= 1 /\ q <= S[Len(printed)] BY <1>1, <1>2
<1> HIDE DEF S
<1>5. Len(printed) \in Reached /\ Reached \subseteq Nat BY <1>1, <1>4
<1>6. PICK i \in Reached : \A j \in Reached : i <= j BY <1>5, LeastNat
<1>7. i # 0 BY <1>2, <1>4, <1>6
<1>8. i \in 1..Len(printed) /\ i - 1 \in 0..Len(printed) BY <1>1, <1>6, <1>7
<1>9. i - 1 \notin Reached BY <1>6, <1>8
<1>10. ~(q <= S[i - 1]) /\ q <= S[i] BY <1>6, <1>8, <1>9
<1>11. S[i - 1] \in Nat /\ S[i] = S[i - 1] + Len(printed[i].words) /\ Len(printed[i].words) \in Nat
  BY <1>2, <1>3, <1>8
<1>12. q - S[i - 1] \in 1..Len(printed[i].words) /\ q = S[i - 1] + (q - S[i - 1])
  BY <1>4, <1>10, <1>11
<1> QED BY <1>8, <1>12 DEF S

(* A log is the beginning of that text, but its last word may be what is   *)
(* left of one.                                                            *)
LogVocabulary == Vocabulary \cup {half[1] : half \in Halves}
Left(word, whole) == word = whole \/ \E half \in Halves : half[1] = word /\ half[2] = whole
Begins(log, printed) ==
  /\ Len(log) \in 0..Start(printed)[Len(printed)]
  /\ DOMAIN log = 1..Len(log)
  /\ log \in Seq(LogVocabulary)
  /\ \A i \in 1..Len(printed) : \A o \in 1..Len(printed[i].words) :
       /\ Start(printed)[i - 1] + o < Len(log)
            => log[Start(printed)[i - 1] + o] = printed[i].words[o]
       /\ Start(printed)[i - 1] + o = Len(log)
            => Left(log[Start(printed)[i - 1] + o], printed[i].words[o])

(* The first n words of it are those of the text.                          *)
Agrees(log, printed, n) ==
  \A i \in 1..Len(printed) : \A o \in 1..Len(printed[i].words) :
    Start(printed)[i - 1] + o <= n => log[Start(printed)[i - 1] + o] = printed[i].words[o]

CutAt(text, n, tail) == SubSeq(text, 1, n) \o tail

LEMMA CutBegins ==
  ASSUME NEW printed \in Seq(Line), NEW text, text = TextUpTo(printed)[Len(printed)],
         NEW n \in 0..Len(text), NEW tail \in RestsAt(text, n),
         NEW log, log = CutAt(text, n, tail)
  PROVE  /\ Begins(log, printed) /\ Agrees(log, printed, n)
         /\ n \in Nat /\ n <= Start(printed)[Len(printed)]
         /\ tail = <<>> => Len(log) = n
         /\ tail # <<>> => Len(log) = n + 1 /\ log[n + 1] = tail[1]
         /\ tail # <<>> => n < Start(printed)[Len(printed)]
<1> DEFINE whole == SubSeq(text, 1, n)
           S == Start(printed)
           all == S[Len(printed)]
<1>1. Len(printed) \in Nat /\ Len(printed) \in 0..Len(printed) BY LenProperties
<1>2. text \in Seq(Vocabulary) BY <1>1, TextTyped
<1>3. all = Len(text) BY <1>1 DEF Start
<1>4. \A i \in 1..Len(printed) : \A o \in 1..Len(printed[i].words) :
        text[S[i - 1] + o] = printed[i].words[o]
  BY WordAt
<1>5. /\ n \in 0..Len(text) /\ log = whole \o tail
      /\ tail \in {<<>>} \cup (IF n < Len(text) THEN HalvesOf(text[n + 1]) ELSE {})
  BY DEF RestsAt, CutAt
<1>6. \A i \in 1..Len(printed) : \A o \in 1..Len(printed[i].words) : S[i - 1] + o \in Nat \ {0}
  <2> TAKE i \in 1..Len(printed)
  <2> TAKE o \in 1..Len(printed[i].words)
  <2>1. i - 1 \in 0..Len(printed) BY <1>1
  <2>2. S[i - 1] \in Nat BY <2>1, StartGrows
  <2>3. Len(printed[i].words) \in Nat BY ElementOfSeq, LineTyped, LenProperties
  <2> QED BY <2>2, <2>3
<1> HIDE DEF S, all
<1>7. Len(text) \in Nat /\ \A q \in 1..Len(text) : text[q] \in Vocabulary
  BY <1>2, LenProperties, ElementOfSeq
<1>8. n \in Nat /\ \A q \in 1..n : text[q] \in Vocabulary BY <1>5, <1>7
<1>9. /\ whole \in Seq(Vocabulary)
      /\ Len(whole) = IF 1 <= n THEN n - 1 + 1 ELSE 0
      /\ \A q \in 1..(n - 1 + 1) : whole[q] = text[1 + q - 1]
  BY <1>8, SubSeqProperties
<1>10. Len(whole) = n /\ \A q \in 1..n : whole[q] = text[q] BY <1>8, <1>9
<1> HIDE DEF whole
<1>11. whole \in Seq(LogVocabulary) BY <1>9, SeqMonotonic DEF LogVocabulary
<1>12. /\ tail \in Seq(LogVocabulary)
       /\ tail = <<>> \/ /\ Len(tail) = 1 /\ n < Len(text)
                         /\ \E half \in Halves : half[1] = tail[1] /\ half[2] = text[n + 1]
  <2>1. CASE tail = <<>> BY <2>1
  <2>2. CASE tail # <<>>
    <3>1. n < Len(text) /\ tail \in HalvesOf(text[n + 1]) BY <1>5, <2>2
    <3>2. PICK half \in Halves : half[2] = text[n + 1] /\ tail = <<half[1]>>
      BY <3>1 DEF HalvesOf
    <3>3. half[1] \in LogVocabulary BY DEF LogVocabulary
    <3> DEFINE h == half[1]
    <3>4. tail = <<h>> /\ h \in LogVocabulary BY <3>2, <3>3
    <3> HIDE DEF h
    <3>5. tail \in Seq(LogVocabulary) /\ Len(tail) = 1 /\ tail[1] = h BY <3>4
    <3> QED BY <3>1, <3>2, <3>5 DEF h
  <2> QED BY <2>1, <2>2
<1>13. /\ log \in Seq(LogVocabulary) /\ Len(log) = n + Len(tail)
       /\ \A q \in 1..n : log[q] = text[q]
       /\ Len(tail) = 1 => log[n + 1] = tail[1]
  <2>1. Len(tail) \in Nat BY <1>12, LenProperties
  <2>2. /\ whole \o tail \in Seq(LogVocabulary)
        /\ Len(whole \o tail) = Len(whole) + Len(tail)
        /\ \A q \in 1..(Len(whole) + Len(tail)) :
             (whole \o tail)[q] = IF q <= Len(whole) THEN whole[q] ELSE tail[q - Len(whole)]
    BY <1>11, <1>12, ConcatProperties
  <2>3. /\ log \in Seq(LogVocabulary) /\ Len(log) = n + Len(tail)
        /\ \A q \in 1..(n + Len(tail)) : log[q] = IF q <= n THEN whole[q] ELSE tail[q - n]
    BY <1>5, <1>10, <2>2
  <2>4. \A q \in 1..n : log[q] = text[q] BY <1>8, <1>10, <2>1, <2>3
  <2>5. Len(tail) = 1 => log[n + 1] = tail[1]
    <3> SUFFICES ASSUME Len(tail) = 1 PROVE log[n + 1] = tail[1] OBVIOUS
    <3>1. n + 1 \in 1..(n + Len(tail)) /\ ~(n + 1 <= n) /\ n + 1 - n = 1 BY <1>8
    <3> QED BY <2>3, <3>1
  <2> QED BY <2>3, <2>4, <2>5
<1>14. /\ tail = <<>> => Len(log) = n
       /\ tail # <<>> => Len(log) = n + 1 /\ log[n + 1] = tail[1] /\ n < Len(text)
  <2>1. CASE tail = <<>>
    <3>1. Len(tail) = 0 BY <2>1
    <3> QED BY <1>8, <1>13, <2>1, <3>1
  <2>2. CASE tail # <<>>
    <3>1. Len(tail) = 1 /\ n < Len(text) BY <1>12, <2>2
    <3> QED BY <1>13, <2>2, <3>1
  <2> QED BY <2>1, <2>2
<1>15. Agrees(log, printed, n)
  <2> SUFFICES ASSUME NEW i \in 1..Len(printed), NEW o \in 1..Len(printed[i].words),
                      S[i - 1] + o <= n
               PROVE  log[S[i - 1] + o] = printed[i].words[o]
    BY DEF Agrees, S
  <2>1. S[i - 1] + o \in 1..n BY <1>6, <1>8
  <2> QED BY <1>4, <1>13, <2>1
<1>16. \A i \in 1..Len(printed) : \A o \in 1..Len(printed[i].words) :
         /\ S[i - 1] + o < Len(log) => log[S[i - 1] + o] = printed[i].words[o]
         /\ S[i - 1] + o = Len(log) => Left(log[S[i - 1] + o], printed[i].words[o])
  <2> TAKE i \in 1..Len(printed)
  <2> TAKE o \in 1..Len(printed[i].words)
  <2> DEFINE q == S[i - 1] + o
  <2>1. q \in Nat /\ text[q] = printed[i].words[o] BY <1>4, <1>6
  <2>2. q <= n => log[q] = printed[i].words[o] BY <1>15 DEF Agrees, S
  <2> HIDE DEF q
  <2>3. CASE q <= n
    <3>1. log[q] = printed[i].words[o] BY <2>2, <2>3
    <3> QED BY <3>1 DEF Left, q
  <2>4. CASE ~(q <= n)
    <3>1. CASE tail = <<>>
      <4>1. ~(q < Len(log)) /\ q # Len(log) BY <1>8, <1>14, <2>1, <2>4, <3>1
      <4> QED BY <4>1 DEF q
    <3>2. CASE tail # <<>>
      <4>1. ~(q < Len(log)) /\ (q = Len(log) => q = n + 1) BY <1>8, <1>14, <2>1, <2>4, <3>2
      <4>2. q = Len(log) => Left(log[q], printed[i].words[o])
        BY <1>12, <1>14, <2>1, <3>2, <4>1 DEF Left
      <4> QED BY <4>1, <4>2 DEF q
    <3> QED BY <3>1, <3>2
  <2> QED BY <2>3, <2>4
<1>17. Len(log) \in 0..all /\ n <= all /\ (tail # <<>> => n < all)
  BY <1>3, <1>5, <1>7, <1>8, <1>14
<1>18. DOMAIN log = 1..Len(log) BY <1>13, LenProperties
<1>19. Begins(log, printed) BY <1>13, <1>16, <1>17, <1>18 DEF Begins, all, S
<1> QED BY <1>8, <1>14, <1>15, <1>17, <1>19 DEF all, S

(* The words that set something, where they stand and what follows them.   *)
Marks(line, o) ==
  LET word == line.words[o]
      value == line.words[4]
  IN /\ word \in Percentiles =>
          line.sets = word /\ o = 3 /\ Len(line.words) = 4 /\ line.to = <<value>>
     /\ word = "warmup)" =>
          line.sets = word /\ o = 2 /\ Len(line.words) = 4 /\ line.to = <<line.words[3], value>>
     /\ word = "Code" =>
          /\ o = 1 /\ Len(line.words) = 4 /\ line.to = <<value>>
          /\ line.words[2] \in Codes => line.sets = line.words[2]
     /\ word \in QpsWords =>
          line.sets = "qps=" /\ o = 2 /\ Len(line.words) = 2 /\ line.to = <<word>>

LEMMA TextMarksNothing ==
  ASSUME NEW line, line.words \in AnyText, NEW o \in 1..Len(line.words)
  PROVE  Marks(line, o)
<1>1. line.words[o] \in Words \cup Braces BY ElementOfSeq DEF AnyText
<1>2. line.words[o] \notin Percentiles \cup {"warmup)", "Code"} \cup QpsWords
  BY <1>1, WordsAssumption DEF Braces, Percentiles, Layout
<1> QED BY <1>2 DEF Marks

LEMMA LineMarks ==
  ASSUME NEW line \in Line, NEW o \in 1..Len(line.words)
  PROVE  Marks(line, o)
<1>1. CASE line \in {Target(p, v) : p \in Percentiles, v \in Words}
  <2>1. PICK p \in Percentiles, v \in Words : line = Target(p, v) BY <1>1
  <2>2. line.words = <<"#", "target", p, v>> /\ line.sets = p /\ line.to = <<v>> BY <2>1 DEF Target
  <2>3. o \in 1..4 /\ Len(line.words) = 4 /\ line.words[4] = v BY <2>2
  <2>4. v \notin Percentiles \cup {"warmup)", "Code"} \cup QpsWords BY WordsAssumption DEF Layout
  <2>5. /\ {"#", "target", p} \cap ({"warmup)", "Code"} \cup QpsWords) = {}
        /\ {"#", "target"} \cap Percentiles = {}
    BY WordsAssumption DEF Layout, Percentiles
  <2>6. \/ o = 3 /\ line.words[o] = p
        \/ o # 3 /\ line.words[o] \in {"#", "target", v}
    BY <2>2, <2>3
  <2> QED BY <2>2, <2>3, <2>4, <2>5, <2>6 DEF Marks
<1>2. CASE line \in {Code(c, v) : c \in Words \cup Codes, v \in Words}
  <2>1. PICK c \in Words \cup Codes, v \in Words : line = Code(c, v) BY <1>2
  <2>2. /\ line.words = <<"Code", c, ":", v>> /\ line.to = <<v>>
        /\ line.sets = IF c \in Codes THEN c ELSE "none"
    BY <2>1 DEF Code
  <2>3. o \in 1..4 /\ Len(line.words) = 4 /\ line.words[4] = v /\ line.words[2] = c BY <2>2
  <2>4. {v, c, ":"} \cap (Percentiles \cup {"warmup)", "Code"} \cup QpsWords) = {}
    BY WordsAssumption DEF Layout, Percentiles, Codes
  <2>5. "Code" \notin Percentiles \cup {"warmup)"} \cup QpsWords
    BY WordsAssumption DEF Layout, Percentiles
  <2>6. \/ o = 1 /\ line.words[o] = "Code"
        \/ o # 1 /\ line.words[o] \in {v, c, ":"}
    BY <2>2, <2>3
  <2> QED BY <2>2, <2>3, <2>4, <2>5, <2>6 DEF Marks
<1>3. CASE line \in {Total(v) : v \in Words}
  <2>1. PICK v \in Words : line = Total(v) BY <1>3
  <2>2. /\ line.words = <<"(plus", "warmup)", v, "ms">>
        /\ line.sets = "warmup)" /\ line.to = <<v, "ms">>
    BY <2>1 DEF Total
  <2>3. o \in 1..4 /\ Len(line.words) = 4 /\ line.words[3] = v /\ line.words[4] = "ms" BY <2>2
  <2>4. {v, "(plus", "ms"} \cap (Percentiles \cup {"warmup)", "Code"} \cup QpsWords) = {}
    BY WordsAssumption DEF Layout, Percentiles
  <2>5. "warmup)" \notin Percentiles \cup {"Code"} \cup QpsWords
    BY WordsAssumption DEF Layout, Percentiles
  <2>6. \/ o = 2 /\ line.words[o] = "warmup)"
        \/ o # 2 /\ line.words[o] \in {v, "(plus", "ms"}
    BY <2>2, <2>3
  <2> QED BY <2>2, <2>3, <2>4, <2>5, <2>6 DEF Marks
<1>4. CASE line \in {Rate(w) : w \in QpsWords}
  <2>1. PICK w \in QpsWords : line = Rate(w) BY <1>4
  <2>2. line.words = <<"calls.", w>> /\ line.sets = "qps=" /\ line.to = <<w>> BY <2>1 DEF Rate
  <2>3. o \in 1..2 /\ Len(line.words) = 2 BY <2>2
  <2>4. w \notin Percentiles \cup {"warmup)", "Code"} BY WordsAssumption DEF Layout
  <2>5. "calls." \notin Percentiles \cup {"warmup)", "Code"} \cup QpsWords
    BY WordsAssumption DEF Layout, Percentiles
  <2>6. \/ o = 2 /\ line.words[o] = w
        \/ o # 2 /\ line.words[o] = "calls."
    BY <2>2, <2>3
  <2> QED BY <2>2, <2>3, <2>4, <2>5, <2>6 DEF Marks
<1>5. CASE line \in [sets: {"json"}, to: {<<>>}, words: JsonText]
  <2>1. line.words \in AnyText BY <1>5 DEF JsonText
  <2> QED BY <2>1, TextMarksNothing
<1>6. CASE line \in [sets: {"none"}, to: {<<>>}, words: AnyText]
  <2>1. line.words \in AnyText BY <1>6
  <2> QED BY <2>1, TextMarksNothing
<1> QED BY <1>1, <1>2, <1>3, <1>4, <1>5, <1>6 DEF Line

(* Where the word stands that sets a field.                                *)
KeyWord(field) == IF field \in Percentiles THEN 3 ELSE IF field \in Codes THEN 1 ELSE 2

LEMMA LineSets ==
  ASSUME NEW line \in Line, line.sets \in Fields
  PROVE  LET f == line.sets
             key == KeyWord(f)
             n == Len(line.words)
         IN /\ key \in 1..n
            /\ f \in Percentiles => n = 4 /\ line.words[3] = f /\ line.to = <<line.words[4]>>
            /\ f = "warmup)" =>
                 n = 4 /\ line.words[2] = f /\ line.to = <<line.words[3], line.words[4]>>
            /\ f \in Codes =>
                 /\ n = 4 /\ line.words[1] = "Code" /\ line.words[2] = f
                 /\ line.to = <<line.words[4]>>
            /\ f = "qps=" => n = 2 /\ line.words[2] \in QpsWords /\ line.to = <<line.words[2]>>
<1>1. CASE line \in {Target(p, v) : p \in Percentiles, v \in Words}
  <2>1. PICK p \in Percentiles, v \in Words : line = Target(p, v) BY <1>1
  <2>2. line.words = <<"#", "target", p, v>> /\ line.sets = p /\ line.to = <<v>> BY <2>1 DEF Target
  <2>3. Len(line.words) = 4 /\ line.words[3] = p /\ line.words[4] = v BY <2>2
  <2>4. p \notin Codes \cup {"warmup)", "qps="} BY DEF Percentiles, Codes
  <2> QED BY <2>2, <2>3, <2>4 DEF KeyWord
<1>2. CASE line \in {Code(c, v) : c \in Words \cup Codes, v \in Words}
  <2>1. PICK c \in Words \cup Codes, v \in Words : line = Code(c, v) BY <1>2
  <2>2. /\ line.words = <<"Code", c, ":", v>> /\ line.to = <<v>>
        /\ line.sets = IF c \in Codes THEN c ELSE "none"
    BY <2>1 DEF Code
  <2>3. /\ Len(line.words) = 4
        /\ line.words[1] = "Code" /\ line.words[2] = c /\ line.words[4] = v
    BY <2>2
  <2>4. c \in Codes /\ line.sets = c BY <2>2 DEF Fields, Percentiles, Codes
  <2>5. c \notin Percentiles \cup {"warmup)", "qps="} BY <2>4 DEF Percentiles, Codes
  <2> QED BY <2>2, <2>3, <2>4, <2>5 DEF KeyWord
<1>3. CASE line \in {Total(v) : v \in Words}
  <2>1. PICK v \in Words : line = Total(v) BY <1>3
  <2>2. /\ line.words = <<"(plus", "warmup)", v, "ms">>
        /\ line.sets = "warmup)" /\ line.to = <<v, "ms">>
    BY <2>1 DEF Total
  <2>3. /\ Len(line.words) = 4
        /\ line.words[2] = "warmup)" /\ line.words[3] = v /\ line.words[4] = "ms"
    BY <2>2
  <2>4. "warmup)" \notin Percentiles \cup Codes \cup {"qps="} BY DEF Percentiles, Codes
  <2> QED BY <2>2, <2>3, <2>4 DEF KeyWord
<1>4. CASE line \in {Rate(w) : w \in QpsWords}
  <2>1. PICK w \in QpsWords : line = Rate(w) BY <1>4
  <2>2. line.words = <<"calls.", w>> /\ line.sets = "qps=" /\ line.to = <<w>> BY <2>1 DEF Rate
  <2>3. Len(line.words) = 2 /\ line.words[2] = w BY <2>2
  <2>4. "qps=" \notin Percentiles \cup Codes \cup {"warmup)"} BY DEF Percentiles, Codes
  <2> QED BY <2>2, <2>3, <2>4 DEF KeyWord
<1>5. ASSUME line.sets \in {"json", "none"} PROVE FALSE
  BY <1>5 DEF Fields, Percentiles, Codes
<1> QED BY <1>1, <1>2, <1>3, <1>4, <1>5 DEF Line

(* Every word of a log is one of a line's, or, the last one, what is left  *)
(* of it; the words of a line that ends in the log are there.              *)
LEMMA WordOfLine ==
  ASSUME NEW printed \in Seq(Line), NEW log, Begins(log, printed), NEW q \in DOMAIN log
  PROVE  \E i \in 1..Len(printed) : \E o \in 1..Len(printed[i].words) :
           /\ q = Start(printed)[i - 1] + o
           /\ q < Len(log) => log[q] = printed[i].words[o]
           /\ q = Len(log) => Left(log[q], printed[i].words[o])
<1>1. /\ q \in 1..Len(log)
      /\ Len(log) \in 0..Start(printed)[Len(printed)]
      /\ \A i \in 1..Len(printed) : \A o \in 1..Len(printed[i].words) :
           /\ Start(printed)[i - 1] + o < Len(log)
                => log[Start(printed)[i - 1] + o] = printed[i].words[o]
           /\ Start(printed)[i - 1] + o = Len(log)
                => Left(log[Start(printed)[i - 1] + o], printed[i].words[o])
  BY DEF Begins
<1>2. Len(printed) \in 0..Len(printed) BY LenProperties
<1>3. Start(printed)[Len(printed)] \in Nat BY <1>2, StartGrows
<1>4. q \in 1..Start(printed)[Len(printed)] BY <1>1, <1>3
<1>5. PICK i \in 1..Len(printed) : \E o \in 1..Len(printed[i].words) : q = Start(printed)[i - 1] + o
  BY <1>4, LineAt
<1>6. PICK o \in 1..Len(printed[i].words) : q = Start(printed)[i - 1] + o BY <1>5
<1> QED BY <1>1, <1>6

(* Where a line ends in the text.                                          *)
LEMMA LineInText ==
  ASSUME NEW printed \in Seq(Line), NEW i \in 1..Len(printed)
  PROVE  /\ printed[i] \in Line /\ Len(printed[i].words) \in Nat
         /\ Start(printed)[i - 1] \in Nat /\ Start(printed)[i] \in Nat
         /\ Start(printed)[i] = Start(printed)[i - 1] + Len(printed[i].words)
<1>1. printed[i] \in Line /\ Len(printed[i].words) \in Nat
  BY ElementOfSeq, LineTyped, LenProperties
<1>2. i \in 0..Len(printed) /\ i - 1 \in 0..Len(printed) BY LenProperties
<1>3. Start(printed)[i - 1] \in Nat /\ Start(printed)[i] \in Nat BY <1>2, StartGrows
<1>4. Start(printed)[i] = Start(printed)[i - 1] + Len(printed[i].words) BY StartGrows
<1> QED BY <1>1, <1>3, <1>4

(* The lines that end in the log, be it with half a word, and have the     *)
(* word that the parser looks for.                                         *)
InLog(printed, log) ==
  {i \in 1..Len(printed) :
     /\ Start(printed)[i] <= Len(log)
     /\ printed[i].sets = "qps=" => log[Start(printed)[i]] \in QpsWords}
Ending(to, word) == [to EXCEPT ![Len(to)] = word]

LEMMA EndingOne ==
  ASSUME NEW a, NEW to, to = <<a>>, NEW word
  PROVE  Ending(to, word) = <<word>>
<1>1. Ending(<<a>>, word) = <<word>> BY DEF Ending
<1> QED BY <1>1, Zenon

LEMMA EndingTwo ==
  ASSUME NEW a, NEW b, NEW word
  PROVE  Ending(<<a, b>>, word) = <<a, word>>
BY DEF Ending

(* What is set is set by such a line, unless the parser panics; and each   *)
(* such line sets what it stands for, but for its last word.               *)
LEMMA SetByLine ==
  ASSUME NEW printed \in Seq(Line), NEW log, Begins(log, printed), ~ReadPanics(log),
         NEW field \in Fields, NEW q \in DOMAIN log, Sets(log, q, field)
  PROVE  \E i \in InLog(printed, log) :
           printed[i].sets = field /\ q = Start(printed)[i - 1] + KeyWord(field)
<1>1. PICK i \in 1..Len(printed) : \E o \in 1..Len(printed[i].words) :
        /\ q = Start(printed)[i - 1] + o
        /\ q < Len(log) => log[q] = printed[i].words[o]
        /\ q = Len(log) => Left(log[q], printed[i].words[o])
  BY WordOfLine
<1>2. PICK o \in 1..Len(printed[i].words) :
        /\ q = Start(printed)[i - 1] + o
        /\ q < Len(log) => log[q] = printed[i].words[o]
        /\ q = Len(log) => Left(log[q], printed[i].words[o])
  BY <1>1
<1> DEFINE line == printed[i]
           s == Start(printed)[i - 1]
           e == Start(printed)[i]
<1>3. /\ line \in Line /\ Len(line.words) \in Nat /\ s \in Nat /\ e \in Nat
      /\ e = s + Len(line.words)
  BY LineInText
<1>4. Marks(line, o) BY <1>3, LineMarks
<1>5. /\ o \in 1..Len(line.words) /\ q = s + o
      /\ q < Len(log) => log[q] = line.words[o]
      /\ q = Len(log) => Left(log[q], line.words[o])
  BY <1>2
<1>6. Len(log) \in Nat /\ DOMAIN log = 1..Len(log) BY LenProperties DEF Begins
<1>7. q + WordsRead(log, q) <= Len(log)
  <2>1. ~(q + WordsRead(log, q) > Len(log)) BY DEF ReadPanics
  <2>2. WordsRead(log, q) \in Nat BY DEF WordsRead
  <2> QED BY <1>6, <2>1, <2>2
<1>8. \A p \in 1..Len(line.words) : s + p < Len(log) => log[s + p] = line.words[p]
  BY DEF Begins
<1>9. q \in Nat /\ q <= Len(log) BY <1>6
<1>10. e \in {s + 2, s + 4} /\ line.sets = field /\ i \in 1..Len(printed) /\ e <= Len(log)
         /\ (field = "qps=" => log[e] \in QpsWords)
       => i \in InLog(printed, log)
  BY DEF InLog
<1> HIDE DEF line, s, e
<1>11. /\ line.sets = field /\ o = KeyWord(field) /\ e <= Len(log)
       /\ e \in {s + 2, s + 4} /\ (field = "qps=" => log[e] \in QpsWords)
  <2>1. CASE field \in Percentiles
    <3>1. log[q] = field BY <2>1 DEF Sets, Percentiles, Codes
    <3>2. WordsRead(log, q) = 1 BY <2>1, <3>1 DEF WordsRead
    <3>3. line.words[o] = field BY <1>5, <1>7, <1>9, <3>1, <3>2
    <3>4. line.sets = field /\ o = 3 /\ Len(line.words) = 4 BY <1>4, <2>1, <3>3 DEF Marks
    <3>5. field # "qps=" BY <2>1 DEF Percentiles
    <3> QED BY <1>3, <1>5, <1>7, <2>1, <3>2, <3>4, <3>5 DEF KeyWord
  <2>2. CASE field = "warmup)"
    <3>1. log[q] = "warmup)" BY <2>2 DEF Sets, Percentiles, Codes
    <3>2. WordsRead(log, q) = 2 BY <3>1 DEF WordsRead, Percentiles
    <3>3. line.words[o] = "warmup)" BY <1>5, <1>7, <1>9, <3>1, <3>2
    <3>4. line.sets = field /\ o = 2 /\ Len(line.words) = 4 BY <1>4, <2>2, <3>3 DEF Marks
    <3> QED BY <1>3, <1>5, <1>7, <2>2, <3>2, <3>4 DEF KeyWord, Percentiles, Codes
  <2>3. CASE field \in Codes
    <3>1. log[q] = "Code" /\ Word(log, q + 1) = field BY <2>3 DEF Sets, Percentiles, Codes
    <3>2. q + 1 \in DOMAIN log /\ log[q + 1] = field BY <2>3, <3>1 DEF Word, Codes
    <3>3. q < Len(log) BY <1>6, <1>9, <3>2
    <3>4. WordsRead(log, q) = 3 BY <2>3, <3>1, <3>2, <3>3 DEF WordsRead, Percentiles
    <3>5. line.words[o] = "Code" BY <1>5, <3>1, <3>3
    <3>6. o = 1 /\ Len(line.words) = 4 BY <1>4, <3>5 DEF Marks
    <3>7. q + 1 = s + 2 /\ q + 1 < Len(log)
      <4>1. q = s + 1 BY <1>5, <3>6
      <4>2. q + 3 <= Len(log) BY <1>7, <3>4
      <4> QED BY <1>3, <1>6, <1>9, <4>1, <4>2
    <3>8. log[s + 2] = line.words[2] BY <1>3, <1>8, <3>6, <3>7
    <3>9. line.words[2] = field BY <3>2, <3>7, <3>8
    <3>10. line.sets = field BY <1>4, <2>3, <3>5, <3>9 DEF Marks
    <3>11. KeyWord(field) = 1 /\ field # "qps=" BY <2>3 DEF KeyWord, Percentiles, Codes
    <3> QED BY <1>3, <1>5, <1>7, <3>4, <3>6, <3>10, <3>11
  <2>4. CASE field = "qps="
    <3>1. log[q] \in QpsWords BY <2>4 DEF Sets, Percentiles, Codes
    <3>2. line.words[o] \in QpsWords
      <4>1. CASE q < Len(log) BY <1>5, <3>1, <4>1
      <4>2. CASE q = Len(log) BY <1>5, <3>1, <4>2, HalvesAssumption DEF Left
      <4> QED BY <1>6, <1>9, <4>1, <4>2
    <3>3. line.sets = field /\ o = 2 /\ Len(line.words) = 2 BY <1>4, <2>4, <3>2 DEF Marks
    <3>4. q = e BY <1>3, <1>5, <3>3
    <3> QED BY <1>3, <1>5, <1>9, <2>4, <3>1, <3>3, <3>4 DEF KeyWord, Percentiles, Codes
  <2> QED BY <2>1, <2>2, <2>3, <2>4 DEF Fields
<1>12. i \in InLog(printed, log) BY <1>10, <1>11
<1> QED BY <1>5, <1>11, <1>12 DEF line, s

LEMMA LineInLogSets ==
  ASSUME NEW printed \in Seq(Line), NEW log, Begins(log, printed), NEW i \in InLog(printed, log),
         printed[i].sets \in Fields, NEW q, q = Start(printed)[i - 1] + KeyWord(printed[i].sets)
  PROVE  /\ q \in DOMAIN log /\ Sets(log, q, printed[i].sets)
         /\ Value(log, q, printed[i].sets) = Ending(printed[i].to, log[Start(printed)[i]])
<1> DEFINE line == printed[i]
           s == Start(printed)[i - 1]
           e == Start(printed)[i]
           f == printed[i].sets
           n == Len(line.words)
<1>1. i \in 1..Len(printed) /\ e <= Len(log) /\ (f = "qps=" => log[e] \in QpsWords) BY DEF InLog
<1>2. line \in Line /\ n \in Nat /\ s \in Nat /\ e \in Nat /\ e = s + n BY <1>1, LineInText
<1>3. Len(log) \in Nat /\ DOMAIN log = 1..Len(log) BY LenProperties DEF Begins
<1>4. \A p \in 1..n : s + p < Len(log) => log[s + p] = line.words[p] BY <1>1 DEF Begins
<1>5. /\ KeyWord(f) \in 1..n
      /\ f \in Percentiles => n = 4 /\ line.words[3] = f /\ line.to = <<line.words[4]>>
      /\ f = "warmup)" =>
           n = 4 /\ line.words[2] = f /\ line.to = <<line.words[3], line.words[4]>>
      /\ f \in Codes =>
           /\ n = 4 /\ line.words[1] = "Code" /\ line.words[2] = f
           /\ line.to = <<line.words[4]>>
      /\ f = "qps=" => n = 2 /\ line.words[2] \in QpsWords /\ line.to = <<line.words[2]>>
  BY <1>2, LineSets
<1>6. f \in Fields /\ f = line.sets /\ q = s + KeyWord(f) OBVIOUS
<1> HIDE DEF line, s, e, f, n
<1>7. \A p \in 1..n : /\ s + p \in DOMAIN log /\ Word(log, s + p) = log[s + p]
                      /\ p < n => log[s + p] = line.words[p]
  <2> SUFFICES ASSUME NEW p \in 1..n
               PROVE  /\ s + p \in DOMAIN log /\ Word(log, s + p) = log[s + p]
                      /\ p < n => log[s + p] = line.words[p]
    OBVIOUS
  <2>1. s + p \in 1..Len(log) /\ (p < n => s + p < Len(log)) BY <1>1, <1>2, <1>3
  <2> QED BY <1>3, <1>4, <2>1 DEF Word
<1>8. q \in DOMAIN log BY <1>5, <1>6, <1>7
<1>9. Sets(log, q, f) /\ Value(log, q, f) = Ending(line.to, log[e])
  <2>1. CASE f \in Percentiles
    <3>1. q = s + 3 /\ q + 1 = s + 4 /\ e = s + 4 BY <1>2, <1>5, <1>6, <2>1 DEF KeyWord
    <3>2. log[q] = f /\ Word(log, q + 1) = log[e] BY <1>2, <1>5, <1>7, <2>1, <3>1
    <3>3. Ending(line.to, log[e]) = <<log[e]>>
      <4>1. line.to = <<line.words[4]>> BY <1>5, <2>1
      <4> QED BY <4>1, EndingOne, Zenon
    <3> QED BY <2>1, <3>2, <3>3 DEF Sets, Value
  <2>2. CASE f = "warmup)"
    <3>1. f \notin Percentiles \cup Codes BY <2>2 DEF Percentiles, Codes
    <3>2. q = s + 2 /\ q + 1 = s + 3 /\ q + 2 = s + 4 /\ e = s + 4
      BY <1>2, <1>5, <1>6, <2>2, <3>1 DEF KeyWord
    <3>3. /\ log[q] = f
          /\ Word(log, q + 1) = line.words[3] /\ Word(log, q + 2) = log[e]
      BY <1>2, <1>5, <1>7, <2>2, <3>2
    <3>4. Ending(line.to, log[e]) = <<line.words[3], log[e]>>
      <4>1. line.to = <<line.words[3], line.words[4]>> BY <1>5, <2>2
      <4>2. Ending(<<line.words[3], line.words[4]>>, log[e]) = <<line.words[3], log[e]>>
        BY EndingTwo
      <4> QED BY <4>1, <4>2, Zenon
    <3> QED BY <2>2, <3>1, <3>3, <3>4 DEF Sets, Value
  <2>3. CASE f \in Codes
    <3>1. f \notin Percentiles \cup {"warmup)"} BY <2>3 DEF Percentiles, Codes
    <3>2. q = s + 1 /\ q + 1 = s + 2 /\ q + 3 = s + 4 /\ e = s + 4
      BY <1>2, <1>5, <1>6, <2>3, <3>1 DEF KeyWord
    <3>3. /\ log[q] = "Code"
          /\ Word(log, q + 1) = f /\ Word(log, q + 3) = log[e]
      BY <1>2, <1>5, <1>7, <2>3, <3>2
    <3>4. Ending(line.to, log[e]) = <<log[e]>>
      <4>1. line.to = <<line.words[4]>> BY <1>5, <2>3
      <4> QED BY <4>1, EndingOne, Zenon
    <3> QED BY <2>3, <3>1, <3>3, <3>4 DEF Sets, Value
  <2>4. CASE f = "qps="
    <3>1. f \notin Percentiles \cup {"warmup)"} \cup Codes BY <2>4 DEF Percentiles, Codes
    <3>2. q = s + 2 /\ e = s + 2 BY <1>2, <1>5, <1>6, <2>4, <3>1 DEF KeyWord
    <3>3. log[q] = log[e] /\ log[e] \in QpsWords BY <1>1, <2>4, <3>2
    <3>4. Ending(line.to, log[e]) = <<log[e]>>
      <4>1. line.to = <<line.words[2]>> BY <1>5, <2>4
      <4> QED BY <4>1, EndingOne, Zenon
    <3> QED BY <2>4, <3>1, <3>3, <3>4 DEF Sets, Value
  <2> QED BY <1>6, <2>1, <2>2, <2>3, <2>4 DEF Fields
<1> QED BY <1>8, <1>9 DEF f, line, e

(* The last of some places, and the first.                                 *)
LEMMA MaxIs ==
  ASSUME NEW S, NEW x \in S, S \subseteq Nat, \A y \in S : x >= y
  PROVE  Max(S) = x
<1>1. Max(S) \in S /\ \A y \in S : Max(S) >= y BY DEF Max
<1>2. Max(S) >= x /\ x >= Max(S) BY <1>1
<1>3. Max(S) \in Nat /\ x \in Nat BY <1>1
<1> QED BY <1>2, <1>3

LEMMA MinIs ==
  ASSUME NEW S, NEW x \in S, S \subseteq Nat, \A y \in S : x <= y
  PROVE  Min(S) = x
<1>1. Min(S) \in S /\ \A y \in S : Min(S) <= y BY DEF Min
<1>2. Min(S) <= x /\ x <= Min(S) BY <1>1
<1>3. Min(S) \in Nat /\ x \in Nat BY <1>1
<1> QED BY <1>2, <1>3

LEMMA MaxOf ==
  ASSUME NEW n \in Nat, NEW S \in SUBSET (0..n), S # {}
  PROVE  Max(S) \in S /\ \A y \in S : Max(S) >= y
<1> DEFINE Above == {m \in Nat : \A y \in S : m >= y}
<1>1. n \in Above OBVIOUS
<1>2. Above # {} /\ Above \subseteq Nat BY <1>1
<1>3. PICK m \in Above : \A l \in Above : m <= l
  <2> HIDE DEF Above
  <2> QED BY <1>2, LeastNat
<1>4. m \in S
  <2> SUFFICES ASSUME m \notin S PROVE FALSE OBVIOUS
  <2>1. \A y \in S : y \in Nat /\ y # m /\ m >= y BY <1>3
  <2>2. m - 1 \in Nat /\ \A y \in S : m - 1 >= y
    <3>1. \A y \in S : m >= y + 1 BY <1>3, <2>1
    <3>2. PICK y \in S : TRUE OBVIOUS
    <3> QED BY <1>3, <2>1, <3>1, <3>2
  <2>3. m <= m - 1 BY <1>3, <2>2
  <2> QED BY <1>3, <2>3
<1>5. \A y \in S : m >= y BY <1>3
<1> QED BY <1>4, <1>5 DEF Max

(* Each number is that of the last line that has it.                       *)
LEMMA LastLineWins ==
  ASSUME NEW printed \in Seq(Line), NEW log, Begins(log, printed), ~ReadPanics(log),
         NEW field \in Fields
  PROVE  LET with == {i \in InLog(printed, log) : printed[i].sets = field}
         IN writeConditionsFromLogs(log)[field] =
              IF with = {} THEN <<>>
              ELSE Ending(printed[Max(with)].to, log[Start(printed)[Max(with)]])
<1> DEFINE with == {i \in InLog(printed, log) : printed[i].sets = field}
           at == {q \in DOMAIN log : Sets(log, q, field)}
<1>1. writeConditionsFromLogs(log)[field] = IF at = {} THEN <<>> ELSE Value(log, Max(at), field)
  BY DEF writeConditionsFromLogs
<1>2. \A q \in at : \E i \in with : q = Start(printed)[i - 1] + KeyWord(field)
  BY SetByLine
<1>3. \A i \in with : /\ Start(printed)[i - 1] + KeyWord(field) \in at
                      /\ Value(log, Start(printed)[i - 1] + KeyWord(field), field)
                           = Ending(printed[i].to, log[Start(printed)[i]])
  BY LineInLogSets
<1>4. at \subseteq Nat
  <2>1. DOMAIN log = 1..Len(log) BY DEF Begins
  <2> QED BY <2>1
<1>5. Len(printed) \in Nat /\ with \subseteq 0..Len(printed) BY LenProperties DEF InLog
<1>6. \A i \in with : i \in 1..Len(printed) /\ printed[i].sets = field BY DEF InLog
<1> HIDE DEF with, at
<1>7. CASE with = {}
  <2>1. at = {} BY <1>2, <1>7
  <2> QED BY <1>1, <1>7, <2>1 DEF with
<1>8. CASE with # {}
  <2> DEFINE m == Max(with)
             last == Start(printed)[m - 1] + KeyWord(field)
  <2>1. m \in with /\ \A i \in with : m >= i BY <1>5, <1>8, MaxOf
  <2> HIDE DEF m
  <2>2. last \in at /\ Value(log, last, field) = Ending(printed[m].to, log[Start(printed)[m]]) BY <1>3, <2>1
  <2>3. ASSUME NEW q \in at PROVE last >= q
    <3>1. PICK i \in with : q = Start(printed)[i - 1] + KeyWord(field) BY <1>2
    <3>2. i \in 1..Len(printed) /\ m \in 1..Len(printed) /\ m >= i BY <1>6, <2>1
    <3>3. /\ i - 1 \in 0..Len(printed) /\ m - 1 \in 0..Len(printed) /\ i - 1 <= m - 1
      BY <1>5, <3>2
    <3>4. /\ Start(printed)[i - 1] <= Start(printed)[m - 1]
          /\ Start(printed)[i - 1] \in Nat /\ Start(printed)[m - 1] \in Nat
      BY <3>3, StartGrows
    <3>5. KeyWord(field) \in Nat BY DEF KeyWord
    <3> QED BY <3>1, <3>4, <3>5
  <2>4. Max(at) = last
    <3> HIDE DEF last
    <3> QED BY <1>4, <2>2, <2>3, MaxIs
  <2>5. writeConditionsFromLogs(log)[field] = Ending(printed[m].to, log[Start(printed)[m]])
    BY <1>1, <2>2, <2>4
  <2> QED BY <1>8, <2>5 DEF with, m
<1> QED BY <1>7, <1>8

(* A text that is all there has whatever the parser looks for behind a     *)
(* word: it is in the same line.                                           *)
LEMMA WholeTextIsRead ==
  ASSUME NEW printed \in Seq(Line), NEW log, Begins(log, printed), Agrees(log, printed, Len(log)),
         \A i \in 1..Len(printed) : Start(printed)[i] <= Len(log)
  PROVE  ~ReadPanics(log)
<1> SUFFICES ASSUME NEW q \in DOMAIN log, q + WordsRead(log, q) > Len(log) PROVE FALSE
  BY DEF ReadPanics
<1>1. PICK i \in 1..Len(printed) : \E o \in 1..Len(printed[i].words) : q = Start(printed)[i - 1] + o
  BY WordOfLine
<1>2. PICK o \in 1..Len(printed[i].words) : q = Start(printed)[i - 1] + o BY <1>1
<1> DEFINE line == printed[i]
           s == Start(printed)[i - 1]
           e == Start(printed)[i]
<1>3. line \in Line /\ Len(line.words) \in Nat /\ s \in Nat /\ e \in Nat /\ e = s + Len(line.words)
  BY LineInText
<1>4. e <= Len(log) OBVIOUS
<1>5. Marks(line, o) BY <1>3, LineMarks
<1>7. Len(log) \in Nat /\ DOMAIN log = 1..Len(log) BY LenProperties DEF Begins
<1>6. o \in 1..Len(line.words) /\ q = s + o /\ log[q] = line.words[o] BY <1>2, <1>7 DEF Agrees
<1> HIDE DEF line, s, e
<1>8. WordsRead(log, q) \in Nat /\ o + WordsRead(log, q) <= Len(line.words)
  <2>1. CASE log[q] \in Percentiles
    <3>1. o = 3 /\ Len(line.words) = 4 BY <1>5, <1>6, <2>1 DEF Marks
    <3>2. WordsRead(log, q) = 1 BY <2>1 DEF WordsRead
    <3> QED BY <3>1, <3>2
  <2>2. CASE log[q] = "warmup)"
    <3>1. o = 2 /\ Len(line.words) = 4 BY <1>5, <1>6, <2>2 DEF Marks
    <3>2. WordsRead(log, q) = 2 BY <2>2 DEF WordsRead, Percentiles
    <3> QED BY <3>1, <3>2
  <2>3. CASE log[q] = "Code"
    <3>1. o = 1 /\ Len(line.words) = 4 BY <1>5, <1>6, <2>3 DEF Marks
    <3>2. WordsRead(log, q) \in {1, 3} BY <2>3 DEF WordsRead, Percentiles
    <3> QED BY <3>1, <3>2
  <2>4. CASE log[q] \notin Percentiles \cup {"warmup)", "Code"}
    <3>1. WordsRead(log, q) = 0 BY <2>4 DEF WordsRead
    <3> QED BY <1>3, <1>6, <3>1
  <2> QED BY <2>1, <2>2, <2>3, <2>4
<1> QED BY <1>3, <1>4, <1>6, <1>7, <1>8

(* The braces of a JSON are its first word and its last.                   *)
LEMMA JsonBraces ==
  ASSUME NEW line \in Line, line.sets = "json"
  PROVE  /\ 1 \in 1..Len(line.words) /\ Len(line.words) \in 1..Len(line.words)
         /\ line.words[1] = "{" /\ line.words[Len(line.words)] = "}"
<1>1. line.words \in JsonText
  <2>1. line \notin {Target(p, v) : p \in Percentiles, v \in Words} BY DEF Target, Percentiles
  <2>2. line \notin {Code(c, v) : c \in Words \cup Codes, v \in Words} BY DEF Code, Codes
  <2>3. line \notin {Total(v) : v \in Words} \cup {Rate(w) : w \in QpsWords} BY DEF Total, Rate
  <2> QED BY <2>1, <2>2, <2>3 DEF Line
<1>2. line.words \in Seq(Words \cup Braces) BY <1>1 DEF JsonText, AnyText
<1>3. line.words # <<>> /\ line.words[1] = "{" /\ line.words[Len(line.words)] = "}"
  BY <1>1 DEF JsonText
<1> DEFINE n == Len(line.words)
<1>4. n \in Nat \ {0} BY <1>2, <1>3, EmptySeq
<1> HIDE DEF n
<1>5. 1 \in 1..n /\ n \in 1..n BY <1>4
<1> QED BY <1>3, <1>5 DEF n

OnlyJsonHasBraces(printed) ==
  \A i \in 1..Len(printed) : HasBraces(printed[i]) => printed[i].sets = "json"

LEMMA BraceInJson ==
  ASSUME NEW printed \in Seq(Line), NEW log, Begins(log, printed), OnlyJsonHasBraces(printed),
         NEW q \in Opening(log) \cup Closing(log)
  PROVE  \E i \in 1..Len(printed) :
           /\ printed[i].sets = "json"
           /\ Start(printed)[i - 1] + 1 <= q /\ q <= Start(printed)[i]
           /\ Start(printed)[i - 1] + 1 \in Opening(log)
<1>1. q \in DOMAIN log /\ log[q] \in Braces BY DEF Opening, Closing, Braces
<1>2. PICK i \in 1..Len(printed) : \E o \in 1..Len(printed[i].words) :
        /\ q = Start(printed)[i - 1] + o
        /\ q < Len(log) => log[q] = printed[i].words[o]
        /\ q = Len(log) => Left(log[q], printed[i].words[o])
  BY <1>1, WordOfLine
<1>3. PICK o \in 1..Len(printed[i].words) :
        /\ q = Start(printed)[i - 1] + o
        /\ q < Len(log) => log[q] = printed[i].words[o]
        /\ q = Len(log) => Left(log[q], printed[i].words[o])
  BY <1>2
<1>10. Len(log) \in Nat /\ q \in 1..Len(log) BY <1>1, LenProperties DEF Begins
<1>11. log[q] = printed[i].words[o]
  <2>1. CASE q < Len(log) BY <1>3, <2>1
  <2>2. CASE q = Len(log) BY <1>1, <1>3, <2>2, HalvesAssumption DEF Left
  <2> QED BY <1>10, <2>1, <2>2
<1>4. /\ printed[i] \in Line /\ Len(printed[i].words) \in Nat
      /\ Start(printed)[i - 1] \in Nat /\ Start(printed)[i] \in Nat
      /\ Start(printed)[i] = Start(printed)[i - 1] + Len(printed[i].words)
  BY LineInText
<1>5. printed[i].words \in Seq(Vocabulary) BY <1>4, LineTyped
<1>6. o \in DOMAIN printed[i].words BY <1>5, LenProperties
<1>7. printed[i].sets = "json" BY <1>1, <1>6, <1>11 DEF OnlyJsonHasBraces, HasBraces
<1>8. Start(printed)[i - 1] + 1 <= q /\ q <= Start(printed)[i] BY <1>3, <1>4
<1>9. Start(printed)[i - 1] + 1 \in Opening(log)
  <2>1. printed[i].words[1] = "{" /\ 1 \in 1..Len(printed[i].words) BY <1>4, <1>7, JsonBraces
  <2>2. DOMAIN log = 1..Len(log) BY DEF Begins
  <2> DEFINE p == Start(printed)[i - 1] + 1
  <2>3. p \in DOMAIN log /\ p <= q BY <1>4, <1>8, <1>10, <2>2
  <2>4. p < Len(log) => log[p] = printed[i].words[1] BY <2>1 DEF Begins
  <2>5. p = q => o = 1 BY <1>3, <1>4
  <2> HIDE DEF p
  <2>6. log[p] = printed[i].words[1]
    <3>1. CASE p = q BY <1>11, <2>5, <3>1
    <3>2. CASE p # q
      <4>1. p < Len(log) BY <1>10, <2>2, <2>3, <3>2
      <4> QED BY <2>4, <4>1
    <3> QED BY <3>1, <3>2
  <2> QED BY <2>1, <2>3, <2>6 DEF Opening, p
<1> QED BY <1>7, <1>8, <1>9

LEMMA SliceIsRight ==
  ASSUME NEW printed \in Seq(Line), NEW log, Begins(log, printed), OnlyJsonHasBraces(printed)
  PROVE  ~SlicePanics(log)
<1> SUFFICES ASSUME Closing(log) # {}, Max(Closing(log)) < Min(Opening(log)) PROVE FALSE
  BY DEF SlicePanics
<1>1. Len(log) \in Nat /\ DOMAIN log = 1..Len(log) BY LenProperties DEF Begins
<1>2. Closing(log) \in SUBSET (0..Len(log)) /\ Opening(log) \subseteq Nat
  <2>1. Closing(log) \subseteq DOMAIN log /\ Opening(log) \subseteq DOMAIN log
    BY DEF Closing, Opening
  <2> QED BY <1>1, <2>1
<1>3. Max(Closing(log)) \in Closing(log) BY <1>1, <1>2, MaxOf
<1> DEFINE last == Max(Closing(log))
           first == Min(Opening(log))
<1>4. last \in Closing(log) /\ last < first BY <1>3
<1> HIDE DEF last
<1>5. PICK i \in 1..Len(printed) : /\ Start(printed)[i - 1] + 1 <= last
                                   /\ Start(printed)[i - 1] + 1 \in Opening(log)
  BY <1>4, BraceInJson
<1>6. first \in Nat /\ first <= Start(printed)[i - 1] + 1
  <2>1. PICK n \in Opening(log) : \A m \in Opening(log) : n <= m BY <1>2, <1>5, LeastNat
  <2>2. first = n BY <1>2, <2>1, MinIs
  <2> QED BY <1>2, <1>5, <2>1, <2>2
<1> HIDE DEF first
<1>7. last \in Nat /\ Start(printed)[i - 1] + 1 \in Nat BY <1>2, <1>4, <1>5
<1> QED BY <1>4, <1>5, <1>6, <1>7

LEMMA JsonIsCut ==
  ASSUME NEW printed \in Seq(Line), NEW log, Begins(log, printed), OnlyJsonHasBraces(printed),
         NEW i \in 1..Len(printed), Start(printed)[i] <= Len(log),
         Agrees(log, printed, Start(printed)[i]),
         \A j \in 1..Len(printed) : printed[j].sets = "json" <=> j = i
  PROVE  getJSONfromLog(log) = printed[i].words
<1> DEFINE json == printed[i].words
           s == Start(printed)[i - 1]
           e == Start(printed)[i]
<1>1. i \in 1..Len(printed) /\ e <= Len(log) OBVIOUS
<1>2. /\ printed[i] \in Line /\ Len(json) \in Nat
      /\ s \in Nat /\ e \in Nat /\ e = s + Len(json)
  BY <1>1, LineInText
<1>3. json \in Seq(LogVocabulary) BY <1>2, LineTyped, SeqMonotonic DEF LogVocabulary
<1>4. /\ 1 \in 1..Len(json) /\ Len(json) \in 1..Len(json)
      /\ json[1] = "{" /\ json[Len(json)] = "}"
  BY <1>1, <1>2, JsonBraces
<1>5. Len(log) \in Nat /\ DOMAIN log = 1..Len(log) BY LenProperties DEF Begins
<1>6. \A o \in 1..Len(json) : s + o <= e => log[s + o] = json[o] BY DEF Agrees
<1>7. ASSUME NEW q \in Opening(log) \cup Closing(log) PROVE s + 1 <= q /\ q <= e
  <2>1. PICK j \in 1..Len(printed) :
          /\ printed[j].sets = "json"
          /\ Start(printed)[j - 1] + 1 <= q /\ q <= Start(printed)[j]
    BY BraceInJson
  <2>2. j = i BY <2>1
  <2> QED BY <2>1, <2>2
<1> HIDE DEF json, s, e
<1>8. \A o \in 1..Len(json) : s + o \in 1..Len(log) /\ log[s + o] = json[o]
  <2> SUFFICES ASSUME NEW o \in 1..Len(json) PROVE s + o \in 1..Len(log) /\ log[s + o] = json[o]
    OBVIOUS
  <2>1. s + o \in 1..Len(log) /\ s + o <= e BY <1>1, <1>2, <1>5
  <2> QED BY <1>6, <2>1
<1>9. s + 1 \in Opening(log) BY <1>4, <1>5, <1>8 DEF Opening
<1>10. e \in Closing(log)
  <2>1. e \in 1..Len(log) /\ log[e] = json[Len(json)] BY <1>2, <1>4, <1>8
  <2> QED BY <1>4, <1>5, <2>1 DEF Closing
<1>11. Opening(log) \subseteq Nat /\ Closing(log) \subseteq Nat
  <2>1. Opening(log) \subseteq DOMAIN log /\ Closing(log) \subseteq DOMAIN log
    BY DEF Opening, Closing
  <2> QED BY <1>5, <2>1
<1>12. \A q \in Closing(log) : e >= q BY <1>2, <1>7, <1>11
<1>13. Min(Opening(log)) = s + 1
  <2> DEFINE first == s + 1
  <2>1. first \in Opening(log) /\ \A q \in Opening(log) : first <= q BY <1>7, <1>9
  <2> HIDE DEF first
  <2> QED BY <1>11, <2>1, MinIs DEF first
<1>14. Max(Closing(log)) = e BY <1>10, <1>11, <1>12, MaxIs
<1>15. getJSONfromLog(log) = SubSeq(log, s + 1, e)
  BY <1>9, <1>10, <1>13, <1>14 DEF getJSONfromLog
<1> DEFINE slice == SubSeq(log, s + 1, e)
<1>16. \A q \in (s + 1)..e : log[q] \in LogVocabulary
  <2> SUFFICES ASSUME NEW q \in (s + 1)..e PROVE log[q] \in LogVocabulary OBVIOUS
  <2>1. q \in 1..Len(log) BY <1>1, <1>2, <1>5
  <2>2. log \in Seq(LogVocabulary) BY DEF Begins
  <2> QED BY <2>1, <2>2, ElementOfSeq
<1>17. /\ slice \in Seq(LogVocabulary)
       /\ Len(slice) = IF s + 1 <= e THEN e - (s + 1) + 1 ELSE 0
       /\ \A o \in 1..(e - (s + 1) + 1) : slice[o] = log[(s + 1) + o - 1]
  <2> DEFINE first == s + 1
  <2>1. first \in Int /\ e \in Int BY <1>2
  <2>2. \A q \in first..e : log[q] \in LogVocabulary BY <1>16
  <2> HIDE DEF first
  <2>3. /\ SubSeq(log, first, e) \in Seq(LogVocabulary)
        /\ Len(SubSeq(log, first, e)) = IF first <= e THEN e - first + 1 ELSE 0
        /\ \A o \in 1..(e - first + 1) : SubSeq(log, first, e)[o] = log[first + o - 1]
    BY <2>1, <2>2, SubSeqProperties
  <2> QED BY <2>3 DEF first
<1> HIDE DEF slice
<1>18. Len(slice) = Len(json) /\ e - (s + 1) + 1 = Len(json)
  <2> DEFINE n == Len(json)
  <2>1. n \in Nat /\ 1 \in 1..n /\ e = s + n BY <1>2, <1>4
  <2> HIDE DEF n
  <2>2. s + 1 <= e /\ e - (s + 1) + 1 = n BY <1>2, <2>1
  <2> QED BY <1>17, <2>2 DEF n
<1>19. \A o \in 1..Len(json) : slice[o] = json[o]
  <2> SUFFICES ASSUME NEW o \in 1..Len(json) PROVE slice[o] = json[o] OBVIOUS
  <2>1. (s + 1) + o - 1 = s + o BY <1>2
  <2>2. slice[o] = log[(s + 1) + o - 1] BY <1>17, <1>18
  <2> QED BY <1>8, <2>1, <2>2
<1>20. slice = json BY <1>3, <1>17, <1>18, <1>19, SeqEqual
<1> QED BY <1>15, <1>20 DEF slice, json

-----------------------------------------------------------------------------
(* What was taken, if anything was, is what the log has.                   *)
LogRead == [panics |-> ReadPanics(Log), fields |-> writeConditionsFromLogs(Log),
            slice |-> SlicePanics(Log), json |-> getJSONfromLog(Log)]
TakenInv ==
  /\ lines \in Outputs /\ cut \in 0..Len(Text)
  /\ rest \in RestsAt(Text, cut)
  /\ taken \in {Nothing, LogRead}

LEMMA TakenInvariance == ReadSpec => []TakenInv
<1>1. Prints => TakenInv BY DEF Prints, TakenInv
<1>2. ASSUME TakenInv, [Reads]_<<lines, cut, rest, taken>> PROVE TakenInv'
  <2>1. UNCHANGED <<lines, cut, rest>> BY <1>2 DEF Reads
  <2>2. Text' = Text /\ Log' = Log BY <2>1 DEF Text, Log
  <2>3. LogRead' = LogRead BY <2>2 DEF LogRead
  <2>4. taken' \in {taken, LogRead} BY <1>2 DEF Reads, LogRead
  <2>5. Nothing' = Nothing BY DEF Nothing
  <2> QED BY <1>2, <2>1, <2>2, <2>3, <2>4, <2>5 DEF TakenInv
<1> QED BY <1>1, <1>2, PTL DEF ReadSpec

LEMMA LogBegins ==
  ASSUME TakenInv
  PROVE  /\ lines \in Seq(Line) /\ Len(lines) \in Nat /\ DOMAIN lines = 1..Len(lines)
         /\ \A i \in 1..Len(lines) : Start(lines)[i] = Len(TextUpTo(lines)[i])
         /\ Begins(Log, lines) /\ Agrees(Log, lines, cut)
         /\ cut \in Nat /\ cut <= Start(lines)[Len(lines)]
         /\ rest = <<>> => Len(Log) = cut
         /\ rest # <<>> => Len(Log) = cut + 1 /\ Log[cut + 1] = rest[1]
         /\ rest # <<>> => cut < Start(lines)[Len(lines)]
<1>1. lines \in Seq(Line) BY OutputsAssumption DEF TakenInv
<1>2. DOMAIN lines = 1..Len(lines) /\ Len(lines) \in Nat BY <1>1, LenProperties
<1>3. \A i \in 1..Len(lines) : Start(lines)[i] = Len(TextUpTo(lines)[i]) BY <1>2 DEF Start
<1>4. /\ Text = TextUpTo(lines)[Len(lines)] /\ cut \in 0..Len(Text)
      /\ rest \in RestsAt(Text, cut) /\ Log = SubSeq(Text, 1, cut) \o rest
  BY DEF TakenInv, Text, Log
<1>5. /\ Begins(Log, lines) /\ Agrees(Log, lines, cut)
      /\ cut \in Nat /\ cut <= Start(lines)[Len(lines)]
      /\ rest = <<>> => Len(Log) = cut
      /\ rest # <<>> => Len(Log) = cut + 1 /\ Log[cut + 1] = rest[1]
      /\ rest # <<>> => cut < Start(lines)[Len(lines)]
  <2>1. Log = CutAt(Text, cut, rest) BY <1>4 DEF CutAt
  <2> QED BY <1>1, <1>4, <2>1, CutBegins
<1> QED BY <1>1, <1>2, <1>3, <1>5

(* The lines that end in the log are the whole ones and the torn one.      *)
LEMMA WholeOrTorn ==
  ASSUME TakenInv, NEW field \in Fields
  PROVE  /\ {i \in WholeLines \cup TornLines : lines[i].sets = field}
              = {i \in InLog(lines, Log) : lines[i].sets = field}
         /\ \A i \in InLog(lines, Log) : lines[i].sets = field =>
              Ending(lines[i].to, Log[Start(lines)[i]]) = NumbersOf(i)
<1> DEFINE S == Start(lines)
<1>1. /\ lines \in Seq(Line) /\ Len(lines) \in Nat /\ DOMAIN lines = 1..Len(lines)
      /\ \A i \in 1..Len(lines) : S[i] = Len(TextUpTo(lines)[i])
      /\ Agrees(Log, lines, cut) /\ cut \in Nat
      /\ rest = <<>> => Len(Log) = cut
      /\ rest # <<>> => Len(Log) = cut + 1 /\ Log[cut + 1] = rest[1]
  BY LogBegins
<1>2. WholeLines = {i \in 1..Len(lines) : S[i] <= cut} BY <1>1 DEF WholeLines
<1>3. TornLines = {i \in 1..Len(lines) : /\ rest # <<>> /\ S[i] = cut + 1
                                         /\ lines[i].sets = "qps=" => rest[1] \in QpsWords}
  BY <1>1 DEF TornLines
<1>4. ASSUME NEW i \in 1..Len(lines), lines[i].sets = field
      PROVE  /\ i \in InLog(lines, Log) <=> i \in WholeLines \cup TornLines
             /\ i \in WholeLines \cup TornLines
                  => Ending(lines[i].to, Log[S[i]]) = NumbersOf(i)
  <2> DEFINE line == lines[i]
             n == Len(line.words)
  <2>1. line \in Line /\ n \in Nat /\ S[i - 1] \in Nat /\ S[i] \in Nat /\ S[i] = S[i - 1] + n
    BY <1>1, LineInText
  <2>2. /\ KeyWord(field) \in 1..n
        /\ field \in Percentiles => n = 4 /\ line.to = <<line.words[4]>>
        /\ field = "warmup)" => n = 4 /\ line.to = <<line.words[3], line.words[4]>>
        /\ field \in Codes => n = 4 /\ line.to = <<line.words[4]>>
        /\ field = "qps=" => n = 2 /\ line.words[2] \in QpsWords /\ line.to = <<line.words[2]>>
    BY <1>4, <2>1, LineSets
  <2>3. \A o \in 1..n : S[i - 1] + o <= cut => Log[S[i - 1] + o] = line.words[o]
    BY <1>1, <1>4 DEF Agrees
  <2>4. i \in InLog(lines, Log) <=>
          S[i] <= Len(Log) /\ (field = "qps=" => Log[S[i]] \in QpsWords)
    BY <1>4 DEF InLog
  <2> HIDE DEF n, line, S
  <2>5. CASE S[i] <= cut
    <3>1. S[i] <= Len(Log) BY <1>1, <2>1, <2>5
    <3>2. n \in 1..n BY <2>1, <2>2
    <3>3. Log[S[i]] = line.words[n] BY <2>1, <2>3, <2>5, <3>2
    <3>4. field = "qps=" => Log[S[i]] \in QpsWords BY <2>2, <3>3
    <3>5. i \in WholeLines BY <1>2, <1>4, <2>5
    <3>6. Ending(line.to, line.words[n]) = line.to
      <4>1. CASE field \in Percentiles \cup Codes
        <5>1. n = 4 /\ line.to = <<line.words[4]>> BY <2>2, <4>1
        <5>2. line.to = <<line.words[n]>> BY <5>1
        <5> QED BY <5>2, EndingOne, Zenon
      <4>2. CASE field = "warmup)"
        <5>1. n = 4 /\ line.to = <<line.words[3], line.words[4]>> BY <2>2, <4>2
        <5>2. line.to = <<line.words[3], line.words[n]>> BY <5>1
        <5>3. Ending(<<line.words[3], line.words[n]>>, line.words[n])
                = <<line.words[3], line.words[n]>>
          BY EndingTwo
        <5> QED BY <5>2, <5>3, Zenon
      <4>3. CASE field = "qps="
        <5>1. n = 2 /\ line.to = <<line.words[2]>> BY <2>2, <4>3
        <5>2. line.to = <<line.words[n]>> BY <5>1
        <5> QED BY <5>2, EndingOne, Zenon
      <4> QED BY <4>1, <4>2, <4>3 DEF Fields
    <3>7. NumbersOf(i) = line.to BY <3>5 DEF NumbersOf, line
    <3> QED BY <2>4, <3>1, <3>3, <3>4, <3>5, <3>6, <3>7 DEF line
  <2>6. CASE rest # <<>> /\ S[i] = cut + 1
    <3>1. Log[S[i]] = rest[1] /\ S[i] <= Len(Log) BY <1>1, <2>6
    <3>2. i \notin WholeLines BY <1>1, <1>2, <2>6
    <3>3. i \in TornLines <=> (field = "qps=" => rest[1] \in QpsWords) BY <1>3, <1>4, <2>6
    <3>4. NumbersOf(i) = Ending(line.to, rest[1]) BY <3>2 DEF NumbersOf, Ending, line
    <3> QED BY <2>4, <3>1, <3>2, <3>3, <3>4 DEF line
  <2>7. CASE ~(S[i] <= cut) /\ ~(rest # <<>> /\ S[i] = cut + 1)
    <3>1. ~(S[i] <= Len(Log)) BY <1>1, <2>1, <2>7
    <3>2. i \notin WholeLines \cup TornLines BY <1>2, <1>3, <2>7
    <3> QED BY <2>4, <3>1, <3>2
  <2> QED BY <2>5, <2>6, <2>7
<1>5. InLog(lines, Log) \subseteq 1..Len(lines) BY DEF InLog
<1>6. WholeLines \cup TornLines \subseteq 1..Len(lines) BY <1>2, <1>3
<1> QED BY <1>4, <1>5, <1>6 DEF S

(* However short a log is cut, the controller panics or takes each number  *)
(* from the last line that has it, whatever the lines are; and no number   *)
(* but one that the log ends in is less than the whole of it.              *)
THEOREM NumbersAreOfLines == ReadSpec => []NumbersInPlace
<1>1. ASSUME TakenInv PROVE NumbersInPlace
  <2> SUFFICES ASSUME WasRead, ~taken.panics, NEW field \in Fields
               PROVE  LET with == {i \in WholeLines \cup TornLines : lines[i].sets = field}
                      IN taken.fields[field] = IF with = {} THEN <<>> ELSE NumbersOf(Max(with))
    BY DEF NumbersInPlace
  <2> DEFINE with == {i \in InLog(lines, Log) : lines[i].sets = field}
  <2>1. taken = LogRead BY <1>1 DEF TakenInv, WasRead
  <2>2. ~ReadPanics(Log) /\ taken.fields = writeConditionsFromLogs(Log) BY <2>1 DEF LogRead
  <2>3. lines \in Seq(Line) /\ Begins(Log, lines) /\ Len(lines) \in Nat BY <1>1, LogBegins
  <2>4. taken.fields[field] =
          IF with = {} THEN <<>> ELSE Ending(lines[Max(with)].to, Log[Start(lines)[Max(with)]])
    <3>1. writeConditionsFromLogs(Log)[field] =
            IF with = {} THEN <<>> ELSE Ending(lines[Max(with)].to, Log[Start(lines)[Max(with)]])
      BY <2>2, <2>3, LastLineWins
    <3> QED BY <2>2, <3>1
  <2>5. /\ {i \in WholeLines \cup TornLines : lines[i].sets = field} = with
        /\ \A i \in with : Ending(lines[i].to, Log[Start(lines)[i]]) = NumbersOf(i)
    BY <1>1, WholeOrTorn
  <2>6. with \in SUBSET (0..Len(lines)) BY <2>3 DEF InLog
  <2> HIDE DEF with
  <2>7. with # {} => Max(with) \in with BY <2>3, <2>6, MaxOf
  <2> QED BY <2>4, <2>5, <2>7
<1> QED BY <1>1, TakenInvariance, PTL

(* A log that is all there never panics the parser, whatever was printed.  *)
THEOREM WholeLogsAreRead == ReadSpec => []WholeLogIsRead
<1>1. ASSUME TakenInv PROVE WholeLogIsRead
  <2> SUFFICES ASSUME WasRead, WholeLines = DOMAIN lines PROVE ~taken.panics
    BY DEF WholeLogIsRead
  <2>1. taken = LogRead BY <1>1 DEF TakenInv, WasRead
  <2>2. taken.panics = ReadPanics(Log) BY <2>1 DEF LogRead
  <2>3. /\ lines \in Seq(Line) /\ Len(lines) \in Nat /\ DOMAIN lines = 1..Len(lines)
        /\ \A i \in 1..Len(lines) : Start(lines)[i] = Len(TextUpTo(lines)[i])
        /\ Begins(Log, lines) /\ Agrees(Log, lines, cut)
        /\ cut \in Nat /\ cut <= Start(lines)[Len(lines)]
        /\ rest = <<>> => Len(Log) = cut
        /\ rest # <<>> => cut < Start(lines)[Len(lines)]
    BY <1>1, LogBegins
  <2>4. \A i \in 1..Len(lines) : Start(lines)[i] <= cut BY <2>3 DEF WholeLines
  <2>5. rest = <<>>
    <3> SUFFICES ASSUME rest # <<>> PROVE FALSE OBVIOUS
    <3>1. Start(lines)[0] = 0 BY <2>3, StartGrows
    <3>2. Len(lines) # 0 BY <2>3, <3>1
    <3>3. Len(lines) \in 1..Len(lines) BY <2>3, <3>2
    <3>4. Start(lines)[Len(lines)] \in Nat BY <2>3, <3>3, LineInText
    <3> QED BY <2>3, <2>4, <3>3, <3>4
  <2>6. Len(Log) = cut BY <2>3, <2>5
  <2> QED BY <2>2, <2>3, <2>4, <2>6, WholeTextIsRead
<1> QED BY <1>1, TakenInvariance, PTL

(* Where only JSON has braces the slice between them is well formed, and   *)
(* is the JSON, all of it, if that is all there; however long it is.       *)
THEOREM JsonIsWhole == ReadSpec => []JsonIsTaken
<1>1. ASSUME TakenInv PROVE JsonIsTaken
  <2> SUFFICES ASSUME WasRead,
                      \A i \in DOMAIN lines : HasBraces(lines[i]) => lines[i].sets = "json"
               PROVE  /\ ~taken.slice
                      /\ \A i \in WholeLines :
                           (\A j \in DOMAIN lines : lines[j].sets = "json" <=> j = i)
                             => taken.json = lines[i].words
    BY DEF JsonIsTaken
  <2>1. taken = LogRead BY <1>1 DEF TakenInv, WasRead
  <2>2. taken.slice = SlicePanics(Log) /\ taken.json = getJSONfromLog(Log) BY <2>1 DEF LogRead
  <2>3. /\ lines \in Seq(Line) /\ DOMAIN lines = 1..Len(lines)
        /\ \A i \in 1..Len(lines) : Start(lines)[i] = Len(TextUpTo(lines)[i])
        /\ Begins(Log, lines) /\ Agrees(Log, lines, cut)
        /\ cut \in Nat /\ Len(Log) \in {cut, cut + 1}
    BY <1>1, LogBegins
  <2>4. OnlyJsonHasBraces(lines) BY <2>3 DEF OnlyJsonHasBraces
  <2>5. ~taken.slice BY <2>2, <2>3, <2>4, SliceIsRight
  <2>6. ASSUME NEW i \in WholeLines, \A j \in DOMAIN lines : lines[j].sets = "json" <=> j = i
        PROVE  taken.json = lines[i].words
    <3>1. i \in 1..Len(lines) /\ Start(lines)[i] <= cut BY <2>3 DEF WholeLines
    <3>2. /\ Start(lines)[i - 1] \in Nat /\ Start(lines)[i] \in Nat
          /\ Start(lines)[i] = Start(lines)[i - 1] + Len(lines[i].words)
          /\ Len(lines[i].words) \in Nat
      BY <2>3, <3>1, LineInText
    <3>3. Start(lines)[i] <= Len(Log) BY <2>3, <3>1, <3>2
    <3>4. Agrees(Log, lines, Start(lines)[i])
      <4> SUFFICES ASSUME NEW j \in 1..Len(lines), NEW o \in 1..Len(lines[j].words),
                          Start(lines)[j - 1] + o <= Start(lines)[i]
                   PROVE  Log[Start(lines)[j - 1] + o] = lines[j].words[o]
        BY DEF Agrees
      <4>1. Start(lines)[j - 1] \in Nat /\ Len(lines[j].words) \in Nat BY <2>3, LineInText
      <4>2. Start(lines)[j - 1] + o <= cut BY <2>3, <3>1, <3>2, <4>1
      <4> QED BY <2>3, <4>2 DEF Agrees
    <3> QED BY <2>2, <2>3, <2>4, <2>6, <3>1, <3>3, <3>4, JsonIsCut
  <2> QED BY <2>5, <2>6
<1> QED BY <1>1, TakenInvariance, PTL
=============================================================================
