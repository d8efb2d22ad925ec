------------------------------ MODULE Runtime ------------------------------
(***************************************************************************)
(* What every controller of the operator stands on: the custom resources   *)
(* in the API server, the informer's lagging copy of them, the             *)
(* notifications on their way to the handler, the work queue and its one   *)
(* worker (MaxConcurrentReconciles is 1).                                  *)
(*                                                                         *)
(* The API server is a log of revisions per key, and the informer is a     *)
(* position in that log: the cache lags, and never skips or invents a      *)
(* revision.  A write names the revision it was computed from and is       *)
(* refused unless that is the latest one.                                  *)
(***************************************************************************)
EXTENDS Naturals, Sequences, FiniteSets

CONSTANTS
  Keys,       \* names of the custom resources of one kind
  NoKey,      \* the worker holds no key
  Specs,      \* what a user may ask for
  NoSpec,     \* the spec of a resource that was never created
  Statuses,   \* what the operator may report
  Blank,      \* the status of a fresh resource
  Faults,     \* which disturbances may happen
  MaxFaults   \* bound: how many of them at most, each once

ASSUME KeysAssumption   == NoKey \notin Keys
ASSUME StatusAssumption == Blank \in Statuses
ASSUME FaultAssumption  == MaxFaults \in Nat

VARIABLES
  revisions,  \* the API server: every revision of every resource, in order
  seen,       \* the informer's cache: the last revision of each key it holds
  notify,     \* keys whose change is stored in the cache, not yet queued
  queue,      \* the dirty set of the work queue
  active,     \* the key the worker has taken, or NoKey
  faults      \* the disturbances that happened

runtimeVars == <<revisions, seen, notify, queue, active, faults>>

Object == [live: BOOLEAN, uid: Nat, spec: Specs \cup {NoSpec}, status: Statuses]
Absent == [live |-> FALSE, uid |-> 0, spec |-> NoSpec, status |-> Blank]

RuntimeTypeOK ==
  /\ revisions \in [Keys -> Seq(Object)]
  /\ seen \in [Keys -> Nat]
  /\ \A k \in Keys : seen[k] \in 1..Len(revisions[k])
  /\ notify \subseteq Keys
  /\ queue \subseteq Keys
  /\ active \in Keys \cup {NoKey}
  /\ faults \subseteq Faults

RuntimeInit ==
  /\ revisions = [k \in Keys |-> <<Absent>>]
  /\ seen = [k \in Keys |-> 1]
  /\ notify = {}
  /\ queue = {}
  /\ active = NoKey
  /\ faults = {}

(* The API server's answer, the informer's answer. *)
Latest(k) == Len(revisions[k])
Obj(k)    == revisions[k][Latest(k)]
Cached(k) == revisions[k][seen[k]]

Store(k, object) == revisions' = [revisions EXCEPT ![k] = Append(@, object)]

(* A disturbance the run allows, each at most once.                        *)
Disturb(fault) ==
  /\ fault \in Faults \ faults
  /\ Cardinality(faults) < MaxFaults
  /\ faults' = faults \cup {fault}

(* None of these disturbances happened so far: what a property excludes.   *)
Without(excluded) == faults \cap excluded = {}

-----------------------------------------------------------------------------
(* The user: kubectl apply, edit and delete.                               *)

UserCreates(k, spec) ==
  /\ ~Obj(k).live
  /\ IF Latest(k) = 1 THEN UNCHANGED faults ELSE Disturb("recreate")
  /\ Store(k, [live |-> TRUE, uid |-> Latest(k) + 1, spec |-> spec, status |-> Blank])
  /\ UNCHANGED <<seen, notify, queue, active>>

UserEdits(k, spec) ==
  /\ Obj(k).live
  /\ spec # Obj(k).spec
  /\ Disturb("edit")
  /\ Store(k, [Obj(k) EXCEPT !.spec = spec])
  /\ UNCHANGED <<seen, notify, queue, active>>

UserDeletes(k) ==
  /\ Obj(k).live
  /\ Disturb("delete")
  /\ Store(k, [Obj(k) EXCEPT !.live = FALSE])
  /\ UNCHANGED <<seen, notify, queue, active>>

User(k) ==
  \/ \E spec \in Specs : UserCreates(k, spec) \/ UserEdits(k, spec)
  \/ UserDeletes(k)

-----------------------------------------------------------------------------
(* The informer: the cache takes the next revision, and only then is the   *)
(* change handed to the listeners; the handler puts the key on the queue.  *)

InformerReceives(k) ==
  /\ seen[k] < Latest(k)
  /\ seen' = [seen EXCEPT ![k] = @ + 1]
  /\ notify' = notify \cup {k}
  /\ UNCHANGED <<revisions, queue, active, faults>>

HandlerEnqueues(k) ==
  /\ k \in notify
  /\ notify' = notify \ {k}
  /\ queue' = queue \cup {k}
  /\ UNCHANGED <<revisions, seen, active, faults>>

(* The periodic resync of a cache that is up to date ...                   *)
Resync(k) ==
  /\ Cached(k).live
  /\ seen[k] = Latest(k)
  /\ notify' = notify \cup {k}
  /\ UNCHANGED <<revisions, seen, queue, active, faults>>

(* ... and one that overtakes a revision still on its way.                 *)
ResyncLags(k) ==
  /\ Cached(k).live
  /\ seen[k] < Latest(k)
  /\ Disturb("lag")
  /\ notify' = notify \cup {k}
  /\ UNCHANGED <<revisions, seen, queue, active>>

Informer(k) == InformerReceives(k) \/ HandlerEnqueues(k) \/ Resync(k) \/ ResyncLags(k)

-----------------------------------------------------------------------------
(* Parts of the worker's steps.                                            *)

QueueGet(k) ==
  /\ active = NoKey
  /\ k \in queue
  /\ queue' = queue \ {k}
  /\ active' = k

(* Reconcile returned without an error, or with one.                       *)
DoneForgotten == UNCHANGED <<active, queue>>  \* mutant: no deferred Done
Done    == active' = NoKey /\ UNCHANGED queue
RequeueSwallowed == Done                      \* mutant: the error is dropped
RequeueHeld == UNCHANGED active /\ queue' = queue \cup {active} \* mutant: no deferred Done
Requeue == active' = NoKey /\ queue' = queue \cup {active}

(* Status().Update of a copy read at revision snap; the fallback Update    *)
(* after an error cannot change the status, a subresource of the CRD.      *)
WriteStatusForced(k, snap, status) ==         \* mutant: the last write wins
  /\ Store(k, [revisions[k][snap] EXCEPT !.status = status])
  /\ UNCHANGED faults
WriteStatus(k, snap, status) ==
  \/ /\ snap = Latest(k)
     /\ Store(k, [revisions[k][snap] EXCEPT !.status = status])
     /\ UNCHANGED faults
  \/ /\ snap # Latest(k)
     /\ UNCHANGED <<revisions, faults>>
  \/ /\ Disturb("statusfails")
     /\ UNCHANGED revisions

(* The process exits and its container starts again: queue and worker are  *)
(* gone, the caches are listed afresh, every live key is announced.        *)
RuntimeRestarts ==
  /\ seen' = [k \in Keys |-> Latest(k)]
  /\ notify' = {k \in Keys : Obj(k).live}
  /\ queue' = {}
  /\ active' = NoKey
  /\ UNCHANGED revisions
=============================================================================
