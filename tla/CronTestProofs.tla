--------------------------- MODULE CronTestProofs ---------------------------
(***************************************************************************)
(* What holds of the CronTest controller for any number of CronTests: its  *)
(* types, and that no schedule is removed on behalf of another CronTest.   *)
(***************************************************************************)
EXTENDS CronTest, RuntimeProofs

(* Ids are given in order and belong to one entry; what the map remembers  *)
(* for a CronTest is never the id of another one's entry.                  *)
IdsOwned ==
  /\ \A e \in entries : e.id <= lastId
  /\ \A k \in Keys : jobs[k] <= lastId
  /\ \A e \in entries, k \in Keys : jobs[k] = e.id => e.key = k

CronInv == TypeOK /\ IdsOwned /\ SpecsGiven

LEMMA InitCron == Init => CronInv
<1> SUFFICES ASSUME Init PROVE CronInv OBVIOUS
<1>1. RuntimeTypeOK /\ active = NoKey BY InitTyped DEF Init, RuntimeInit
<1>2. Idle \in Worker BY DEF Idle, Worker
<1> QED BY <1>1, <1>2, InitSpecs, CronAssumption, KeysAssumption DEF Init, CronInv, TypeOK, IdsOwned, Idle

(* A step that leaves entries, ids and map alone, and the worker at rest   *)
(* or at the same key, keeps the invariant with the types of the runtime.  *)
LEMMA QuietKeeps ==
  ASSUME CronInv, RuntimeTypeOK', SpecsGiven', UNCHANGED <<cronVars, jobs, active, worker>>,
         tests' \subseteq Test, \A k \in Keys : seen[k] <= seen'[k]
  PROVE  CronInv'
<1>1. ASSUME active # NoKey PROVE worker.snap \in 1..seen'[active]
  <2>1. active \in Keys /\ worker.snap \in 1..seen[active]
    BY <1>1 DEF CronInv, TypeOK, RuntimeTypeOK
  <2>2. seen[active] \in Nat /\ seen'[active] \in Nat /\ seen[active] <= seen'[active]
    BY <2>1 DEF CronInv, TypeOK, RuntimeTypeOK
  <2> QED BY <2>1, <2>2
<1> QED BY <1>1 DEF CronInv, TypeOK, IdsOwned, cronVars

LEMMA BeginSchedulesKeeps ==
  ASSUME CronInv, NEW k \in Keys, BeginSchedules(k)
  PROVE  CronInv'
<1>1. /\ RuntimeTypeOK /\ RuntimeTypeOK' /\ SpecsGiven' /\ active' = k
      /\ UNCHANGED <<seen, tests>>
  BY UnchangedSpecs DEF CronInv, TypeOK, BeginSchedules, QueueGet, RuntimeTypeOK
<1>2. seen[k] \in 1..Latest(k) /\ Latest(k) \in Nat /\ Cached(k) \in Object
  BY <1>1, ObjectsTyped
<1>3. worker' \in Worker /\ worker'.pc = "status" /\ worker'.snap \in 1..seen'[k]
  BY <1>1, <1>2 DEF BeginSchedules, Worker
<1>4. /\ entries' \subseteq Entry /\ lastId' \in 0..MaxId /\ jobs' \in [Keys -> 0..MaxId]
      /\ IdsOwned'
  <2>1. entries \subseteq Entry /\ lastId \in 0..MaxId /\ jobs \in [Keys -> 0..MaxId]
        /\ MaxId \in Nat
    BY CronAssumption DEF CronInv, TypeOK
  <2>2. CASE Cached(k).spec.valid
    <3> DEFINE new == [id |-> lastId + 1, key |-> k, uid |-> Cached(k).uid,
                       spec |-> Cached(k).spec]
    <3>1. /\ lastId < MaxId /\ lastId' = lastId + 1 /\ entries' = entries \cup {new}
          /\ jobs' = [jobs EXCEPT ![k] = lastId + 1]
      BY <2>2 DEF BeginSchedules, AddFunc
    <3>2. \A e \in entries : e.id \in Nat /\ e.id <= lastId
      BY <2>1 DEF Entry, CronInv, IdsOwned
    <3>3. \A j \in Keys : jobs[j] \in Nat /\ jobs[j] <= lastId
      BY <2>1 DEF CronInv, IdsOwned
    <3>4. new \in Entry
      <4>1. Cached(k).live BY DEF BeginSchedules
      <4>2. Cached(k).uid \in Nat BY <1>2 DEF Object
      <4>3. Cached(k).spec \in Specs
        BY <1>2, <4>1 DEF CronInv, SpecsGiven, Cached
      <4> QED BY <2>1, <3>1, <4>2, <4>3 DEF Entry
    <3>5. IdsOwned'
      BY <2>1, <3>1, <3>2, <3>3 DEF CronInv, IdsOwned
    <3> QED BY <2>1, <3>1, <3>4, <3>5
  <2>3. CASE ~Cached(k).spec.valid
    <3>1. jobs' = [jobs EXCEPT ![k] = 0] /\ UNCHANGED <<entries, lastId>>
      BY <2>3 DEF BeginSchedules, AddFunc
    <3>2. \A e \in entries : e.id # 0 BY <2>1 DEF Entry
    <3> QED BY <2>1, <3>1, <3>2 DEF CronInv, IdsOwned
  <2> QED BY <2>2, <2>3
<1>5. k # NoKey BY KeysAssumption
<1>6. tests' \subseteq Test BY <1>1 DEF CronInv, TypeOK
<1> QED BY <1>1, <1>3, <1>4, <1>5, <1>6 DEF CronInv, TypeOK

LEMMA SavesStatusKeeps ==
  ASSUME CronInv, SavesStatus
  PROVE  CronInv'
<1>1. /\ RuntimeTypeOK /\ active \in Keys /\ worker.snap \in 1..seen[active]
      /\ jobs[active] \in 0..MaxId
  BY DEF CronInv, TypeOK, SavesStatus, RuntimeTypeOK
<1>2. worker.snap \in 1..Latest(active)
  <2>1. seen[active] \in 1..Latest(active) /\ Latest(active) \in Nat BY <1>1, ObjectsTyped
  <2> QED BY <1>1, <2>1
<1>3. [isScheduled |-> TRUE, cronID |-> jobs[active]] \in Statuses
  BY <1>1, CronStatuses
<1>4. /\ active' = NoKey /\ worker' = Idle
      /\ UNCHANGED <<seen, notify, queue, cronVars, jobs, tests>>
  BY DEF SavesStatus, Done
<1>5. queue' \subseteq Keys /\ active' \in Keys \cup {NoKey} BY <1>1, <1>4 DEF RuntimeTypeOK
<1>6. RuntimeTypeOK' /\ SpecsGiven'
  <2>1. CASE UNCHANGED <<revisions, faults>>
    BY <1>1, <1>4, <2>1, UnchangedSpecs DEF RuntimeTypeOK, CronInv
  <2>2. CASE WriteStatus(active, worker.snap, [isScheduled |-> TRUE, cronID |-> jobs[active]])
    BY <1>1, <1>2, <1>3, <1>4, <1>5, <2>2, WriteStatusTyped, WriteStatusSpecs DEF CronInv
  <2> QED BY <2>1, <2>2 DEF SavesStatus
<1> QED BY <1>4, <1>6 DEF CronInv, TypeOK, IdsOwned, cronVars, Idle, Worker

LEMMA CrashKeeps ==
  ASSUME CronInv, Crash
  PROVE  CronInv'
<1>1. RuntimeTypeOK /\ faults' \subseteq Faults
  BY DisturbCounts DEF CronInv, TypeOK, Crash
<1>2. RuntimeTypeOK' /\ active' = NoKey BY <1>1, RestartTyped DEF Crash
<1>3. SpecsGiven' BY UnchangedSpecs DEF CronInv, Crash, RuntimeRestarts
<1> QED BY <1>2, <1>3, CronAssumption
    DEF CronInv, TypeOK, IdsOwned, Crash, Idle, Worker

LEMMA NextKeeps ==
  ASSUME CronInv, [Next]_vars
  PROVE  CronInv'
<1>1. RuntimeTypeOK /\ SpecsGiven /\ tests \subseteq Test /\ \A j \in Keys : seen[j] \in Nat
  BY DEF CronInv, TypeOK, RuntimeTypeOK
<1>2. CASE SavesStatus BY <1>2, SavesStatusKeeps
<1>3. CASE Crash BY <1>3, CrashKeeps
<1>4. ASSUME NEW e \in entries, Fires(e) PROVE CronInv'
  <2>1. [key |-> e.key, uid |-> e.uid, spec |-> e.spec] \in Test
    BY DEF CronInv, TypeOK, Entry, Test
  <2>2. tests' \subseteq Test BY <1>1, <1>4, <2>1 DEF Fires
  <2>3. RuntimeTypeOK' /\ SpecsGiven' /\ UNCHANGED <<cronVars, jobs, active, worker, seen>>
    BY <1>1, <1>4, UnchangedSpecs DEF Fires, runtimeVars, RuntimeTypeOK
  <2> QED BY <1>1, <2>2, <2>3, QuietKeeps
<1>5. ASSUME NEW k \in Keys, BeginRemoves(k) PROVE CronInv'
  <2>1. RuntimeTypeOK' /\ SpecsGiven' /\ UNCHANGED <<active, worker, lastId, tests, seen>>
    BY <1>1, <1>5, UnchangedSpecs DEF BeginRemoves, Take, RuntimeTypeOK
  <2>2. entries' \subseteq entries /\ jobs' = [jobs EXCEPT ![k] = 0] /\ MaxId \in Nat
    BY <1>5, CronAssumption DEF BeginRemoves
  <2>3. \A e \in entries : e.id # 0 BY DEF CronInv, TypeOK, Entry
  <2>4. IdsOwned' BY <2>1, <2>2, <2>3 DEF CronInv, TypeOK, IdsOwned
  <2> QED BY <2>1, <2>2, <2>4 DEF CronInv, TypeOK
<1>6. ASSUME NEW k \in Keys, BeginSkips(k) \/ CurlTestChanges(k) PROVE CronInv'
  <2>1. RuntimeTypeOK' /\ SpecsGiven'
        /\ UNCHANGED <<cronVars, jobs, active, worker, seen, tests>>
    BY <1>1, <1>6, UnchangedSpecs DEF BeginSkips, CurlTestChanges, Take, RuntimeTypeOK
  <2> QED BY <1>1, <2>1, QuietKeeps
<1>7. ASSUME NEW k \in Keys, BeginSchedules(k) PROVE CronInv' BY <1>7, BeginSchedulesKeeps
<1>8. ASSUME NEW k \in Keys, User(k), UNCHANGED <<cronVars, jobs, tests, worker>>
      PROVE  CronInv'
  <2>1. RuntimeTypeOK' /\ SpecsGiven' /\ UNCHANGED <<seen, active>>
    BY <1>1, <1>8, UserTyped, UserSpecs
  <2> QED BY <1>1, <1>8, <2>1, QuietKeeps
<1>9. ASSUME NEW k \in Keys, Informer(k), UNCHANGED <<cronVars, jobs, tests, worker>>
      PROVE  CronInv'
  <2>1. /\ RuntimeTypeOK' /\ SpecsGiven' /\ UNCHANGED active
        /\ \A j \in Keys : seen[j] <= seen'[j]
    BY <1>1, <1>9, InformerTyped, UnchangedSpecs
  <2> QED BY <1>1, <1>9, <2>1, QuietKeeps
<1>10. CASE UNCHANGED vars
  <2>1. RuntimeTypeOK' /\ SpecsGiven'
    BY <1>1, <1>10, UnchangedSpecs DEF vars, runtimeVars, RuntimeTypeOK
  <2> QED BY <1>1, <1>10, <2>1, QuietKeeps DEF vars, runtimeVars
<1> QED BY <1>2, <1>3, <1>4, <1>5, <1>6, <1>7, <1>8, <1>9, <1>10 DEF Next, Begin

LEMMA Invariance == Spec => []CronInv
BY InitCron, NextKeeps, PTL DEF Spec

(* The variables keep their types; what is scheduled is what a user asked  *)
(* for, under an id the scheduler gave.                                    *)
THEOREM TypeCorrect == Spec => []TypeOK
BY Invariance, PTL DEF CronInv

(* However many CronTests are created, edited and deleted, in whatever     *)
(* order their ids are remembered: an entry is removed only because its    *)
(* own CronTest is gone, or with the process.                              *)
THEOREM SchedulesAreKept == Spec => ScheduleKept
<1> DEFINE Kept == \A e \in entries : e \in entries' \/ ~Cached(e.key).live \/ Restarted
<1>1. ASSUME CronInv, [Next]_vars PROVE [Kept]_vars
  <2> SUFFICES ASSUME NEW e \in entries
               PROVE  e \in entries' \/ ~Cached(e.key).live \/ Restarted
    OBVIOUS
  <2>1. e.id \in 1..MaxId /\ e.id <= lastId /\ lastId \in 0..MaxId /\ MaxId \in Nat
    BY <1>1, CronAssumption DEF CronInv, TypeOK, Entry, IdsOwned
  <2>2. CASE Crash BY <2>1, <2>2 DEF Crash, Restarted
  <2>3. ASSUME NEW k \in Keys, BeginRemoves(k)
        PROVE  e \in entries' \/ ~Cached(e.key).live
    BY <1>1, <2>3 DEF BeginRemoves, CronInv, IdsOwned
  <2>4. ASSUME NEW k \in Keys, BeginSchedules(k) PROVE e \in entries'
    BY <2>4 DEF BeginSchedules, AddFunc
  <2>5. CASE UNCHANGED entries BY <2>5
  <2> QED BY <1>1, <2>2, <2>3, <2>4, <2>5
      DEF Next, Begin, SavesStatus, Fires, BeginSkips, CurlTestChanges, cronVars, vars
<1> QED BY <1>1, Invariance, PTL DEF Spec, ScheduleKept
=============================================================================
