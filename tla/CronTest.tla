----------------------------- MODULE CronTest -----------------------------
(***************************************************************************)
(* The CronTest controller: it adds an entry to the scheduler of the       *)
(* process for every CronTest, remembers the entry's id in a map to remove *)
(* it later, and reports the CronTest as scheduled.  An entry that is due  *)
(* creates a test.                                                         *)
(*                                                                         *)
(* The scheduler and the map live in memory and are lost in a restart.     *)
(* What an entry creates, be it a CurlTest, a LoadTest or a TestRun, is    *)
(* one test here; CurlTests are the ones the controller watches.           *)
(***************************************************************************)
EXTENDS Runtime

CONSTANTS MaxId,      \* bound: entries per life of the process
          MaxEntries  \* bound: with more for one CronTest its tests are quiet

ASSUME SpecAssumption    == Specs \subseteq [valid: BOOLEAN, curl: BOOLEAN]
ASSUME CronAssumption    == MaxId \in Nat /\ MaxEntries \in Nat
ASSUME CronStatuses == /\ [isScheduled: BOOLEAN, cronID: 0..MaxId] = Statuses
                       /\ Blank = [isScheduled |-> FALSE, cronID |-> 0]

VARIABLES
  entries,  \* of the scheduler
  lastId,   \* the id it gave last
  jobs,     \* the id remembered per CronTest, 0 if none
  tests,    \* what the entries have created so far
  worker    \* the local variables of Reconcile

cronVars == <<entries, lastId>>
vars == <<runtimeVars, cronVars, jobs, tests, worker>>

Entry == [id: 1..MaxId, key: Keys, uid: Nat, spec: Specs]
Test  == [key: Keys, uid: Nat, spec: Specs]
Worker == [pc: {"idle", "status"}, snap: Nat]
Idle == [pc |-> "idle", snap |-> 0]

TypeOK ==
  /\ RuntimeTypeOK
  /\ entries \subseteq Entry
  /\ lastId \in 0..MaxId
  /\ jobs \in [Keys -> 0..MaxId]
  /\ tests \subseteq Test
  /\ worker \in Worker
  /\ worker.pc = "idle" <=> active = NoKey
  /\ active # NoKey => worker.snap \in 1..seen[active]

Init ==
  /\ RuntimeInit
  /\ entries = {} /\ lastId = 0
  /\ jobs = [k \in Keys |-> 0]
  /\ tests = {}
  /\ worker = Idle

-----------------------------------------------------------------------------
(* The scheduler runs the function of an entry concurrently with Reconcile. *)

Fires(e) ==
  /\ tests' = tests \cup {[key |-> e.key, uid |-> e.uid, spec |-> e.spec]}
  /\ UNCHANGED <<runtimeVars, cronVars, jobs, worker>>

(* The controller also watches the CurlTests that a CronTest owns: their   *)
(* changes put the CronTest on the queue, whatever the cache holds of it.  *)
CurlTestChanges(k) ==
  /\ \E t \in tests : t.key = k /\ t.spec.curl
  /\ Cardinality({e \in entries : e.key = k}) <= MaxEntries
  /\ queue' = queue \cup {k}
  /\ UNCHANGED <<revisions, seen, notify, active, faults, cronVars, jobs, tests, worker>>

-----------------------------------------------------------------------------
(* Reconcile.                                                              *)

Take(k) == active = NoKey /\ k \in queue /\ queue' = queue \ {k}

(* The CronTest is gone: so is the entry that the map knows of.            *)
BeginRemoves(k) ==
  /\ Take(k)
  /\ ~Cached(k).live
  /\ entries' = {e \in entries : e.id # jobs[k]}
  /\ jobs' = [jobs EXCEPT ![k] = 0]
  /\ UNCHANGED <<revisions, seen, notify, active, faults, lastId, tests, worker>>

UnscheduledOnly(k) == ~Cached(k).status.isScheduled  \* mutant: the map is not asked
Unscheduled(k) == ~Cached(k).status.isScheduled \/ jobs[k] = 0

BeginSkips(k) ==
  /\ Take(k)
  /\ Cached(k).live /\ ~Unscheduled(k)
  /\ UNCHANGED <<revisions, seen, notify, active, faults, cronVars, jobs, tests, worker>>

(* AddFunc, and the id into the map; a schedule that cannot be parsed adds *)
(* no entry and has the id 0.                                              *)
AddFuncMisnoted(k) ==          \* mutant: the id before is remembered
  IF Cached(k).spec.valid
  THEN /\ lastId < MaxId
       /\ lastId' = lastId + 1
       /\ entries' = entries \cup
            {[id |-> lastId + 1, key |-> k, uid |-> Cached(k).uid, spec |-> Cached(k).spec]}
       /\ jobs' = [jobs EXCEPT ![k] = lastId]
  ELSE /\ jobs' = [jobs EXCEPT ![k] = 0]
       /\ UNCHANGED <<entries, lastId>>
AddFunc(k) ==
  IF Cached(k).spec.valid
  THEN /\ lastId < MaxId
       /\ lastId' = lastId + 1
       /\ entries' = entries \cup
            {[id |-> lastId + 1, key |-> k, uid |-> Cached(k).uid, spec |-> Cached(k).spec]}
       /\ jobs' = [jobs EXCEPT ![k] = lastId + 1]
  ELSE /\ jobs' = [jobs EXCEPT ![k] = 0]
       /\ UNCHANGED <<entries, lastId>>

BeginSchedules(k) ==
  /\ QueueGet(k)
  /\ Cached(k).live /\ Unscheduled(k)
  /\ AddFunc(k)
  /\ worker' = [pc |-> "status", snap |-> seen[k]]
  /\ UNCHANGED <<revisions, seen, notify, faults, tests>>

(* The status write; one that changes nothing makes no revision.  Errors   *)
(* are overwritten by those of the Update that follows, and dropped.       *)
SavesStatus ==
  /\ worker.pc = "status"
  /\ LET status == [isScheduled |-> TRUE, cronID |-> jobs[active]]
     IN IF status = revisions[active][worker.snap].status
        THEN UNCHANGED <<revisions, faults>>
        ELSE WriteStatus(active, worker.snap, status)
  /\ Done
  /\ worker' = Idle
  /\ UNCHANGED <<seen, notify, cronVars, jobs, tests>>

Begin(k) == BeginRemoves(k) \/ BeginSkips(k) \/ BeginSchedules(k)

Crash ==
  /\ Disturb("crash")
  /\ RuntimeRestarts
  /\ entries' = {} /\ lastId' = 0
  /\ jobs' = [k \in Keys |-> 0]
  /\ worker' = Idle
  /\ UNCHANGED tests

Next ==
  \/ SavesStatus
  \/ Crash
  \/ \E e \in entries : Fires(e)
  \/ \E k \in Keys :
       \/ Begin(k)
       \/ CurlTestChanges(k)
       \/ (User(k) \/ Informer(k)) /\ UNCHANGED <<cronVars, jobs, tests, worker>>

Spec == Init /\ [][Next]_vars

(* Watches deliver, the queue is first in, first out, and the worker's     *)
(* steps are not suspended.  Nothing is asked of the scheduler.            *)
Fairness ==
  /\ WF_vars(SavesStatus)
  /\ \A k \in Keys :
       /\ WF_vars(InformerReceives(k) /\ UNCHANGED <<cronVars, jobs, tests, worker>>)
       /\ WF_vars(HandlerEnqueues(k) /\ UNCHANGED <<cronVars, jobs, tests, worker>>)
       /\ SF_vars(Begin(k))
FairSpec == Spec /\ Fairness

-----------------------------------------------------------------------------
(* A schedule is dropped only because its own CronTest was deleted, or the *)
(* process restarted: never on behalf of another CronTest, whose id in the *)
(* map would have to be out of date or wrong.                              *)
Restarted == lastId' < lastId
ScheduleKept ==
  [][\A e \in entries : e \in entries' \/ ~Cached(e.key).live \/ Restarted]_vars

(* A CronTest with a proper schedule gets an entry, and gets it again      *)
(* after every restart.  One made for an earlier schedule of it counts: it *)
(* is not replaced when the CronTest is edited.                            *)
EveryCronTestIsScheduled ==
  \A k \in Keys : (Obj(k).live /\ Obj(k).spec.valid)
                    ~> (~(Obj(k).live /\ Obj(k).spec.valid) \/ \E e \in entries : e.key = k)

(* Once the deletion of a CronTest was dealt with, no entry of it is left: *)
(* the id was saved in the map to remove it then.                          *)
DealtWith(k) == seen[k] = Latest(k) /\ k \notin notify \cup queue /\ active # k
RemovedWithInstance ==
  \A k \in Keys : ~Obj(k).live /\ DealtWith(k) => \A e \in entries : e.key # k
=============================================================================
