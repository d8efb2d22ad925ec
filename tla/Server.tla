------------------------------- MODULE Server -------------------------------
(***************************************************************************)
(* The Server controller: a ReplicaSet and a Service for every Server,     *)
(* both named after it and owned by it, the type of the Service as the     *)
(* Server asks.  The controller finds them by name, whoever owns them, and *)
(* watches those that a Server owns.                                       *)
(*                                                                         *)
(* They live in the API server as logs of revisions, read through caches   *)
(* that lag each by itself.  What the ReplicaSet and the Service contain   *)
(* beyond their owner and the type never changes.                          *)
(***************************************************************************)
EXTENDS Runtime

CONSTANT MaxRevisions  \* bound: with so many the garbage collector rests
                       \* while the cache still holds the owner

ASSUME ServerAssumption == Statuses = {Blank}   \* a Server reports nothing

VARIABLES
  replicaSets,  \* per name, every revision of the ReplicaSet
  services,     \* ... and of the Service
  rsSeen,       \* the last of them in the cache
  svcSeen,
  worker        \* the local variables of Reconcile

childVars == <<replicaSets, services, rsSeen, svcSeen>>
vars == <<runtimeVars, childVars, worker>>

Types == {"LoadBalancer", "NodePort"}
ReplicaSet == [live: BOOLEAN, owner: Nat]
Service    == [live: BOOLEAN, owner: Nat, type: Types]
Worker == [pc: {"idle", "service", "wait"}, snap: Nat]
Idle == [pc |-> "idle", snap |-> 0]

TypeOK ==
  /\ RuntimeTypeOK
  /\ replicaSets \in [Keys -> Seq(ReplicaSet)]
  /\ services \in [Keys -> Seq(Service)]
  /\ rsSeen \in [Keys -> Nat] /\ svcSeen \in [Keys -> Nat]
  /\ \A k \in Keys : /\ rsSeen[k] \in 1..Len(replicaSets[k])
                     /\ svcSeen[k] \in 1..Len(services[k])
  /\ worker \in Worker
  /\ worker.pc = "idle" <=> active = NoKey
  /\ active # NoKey => worker.snap \in 1..seen[active]

Init ==
  /\ RuntimeInit
  /\ replicaSets = [k \in Keys |-> <<[live |-> FALSE, owner |-> 0]>>]
  /\ services = [k \in Keys |-> <<[live |-> FALSE, owner |-> 0, type |-> "NodePort"]>>]
  /\ rsSeen = [k \in Keys |-> 1]
  /\ svcSeen = [k \in Keys |-> 1]
  /\ worker = Idle

RsObj(k)     == replicaSets[k][Len(replicaSets[k])]
CachedRs(k)  == replicaSets[k][rsSeen[k]]
SvcObj(k)    == services[k][Len(services[k])]
CachedSvc(k) == services[k][svcSeen[k]]

StoreRs(k, rs)   == replicaSets' = [replicaSets EXCEPT ![k] = Append(@, rs)]
StoreSvc(k, svc) == services' = [services EXCEPT ![k] = Append(@, svc)]

newReplicaSetForCR(server) == [live |-> TRUE, owner |-> server.uid]
TypeFor(spec) == IF spec = "LoadBalancer" THEN "LoadBalancer" ELSE "NodePort"
newServiceForCR(server) ==
  [live |-> TRUE, owner |-> server.uid, type |-> TypeFor(server.spec)]

-----------------------------------------------------------------------------
(* The caches of the owned objects; a change enqueues the owner's name.    *)

ReceivesUnwatched(k) ==        \* mutant: owned objects are not watched
  /\ \/ /\ rsSeen[k] < Len(replicaSets[k])
        /\ rsSeen' = [rsSeen EXCEPT ![k] = @ + 1]
        /\ UNCHANGED svcSeen
     \/ /\ svcSeen[k] < Len(services[k])
        /\ svcSeen' = [svcSeen EXCEPT ![k] = @ + 1]
        /\ UNCHANGED rsSeen
  /\ UNCHANGED <<runtimeVars, replicaSets, services, worker>>
ChildReceived(k) ==
  /\ \/ /\ rsSeen[k] < Len(replicaSets[k])
        /\ rsSeen' = [rsSeen EXCEPT ![k] = @ + 1]
        /\ UNCHANGED svcSeen
     \/ /\ svcSeen[k] < Len(services[k])
        /\ svcSeen' = [svcSeen EXCEPT ![k] = @ + 1]
        /\ UNCHANGED rsSeen
  /\ notify' = notify \cup {k}
  /\ UNCHANGED <<revisions, seen, queue, active, faults, replicaSets, services, worker>>

(* The garbage collector takes what is left of a Server that is gone.      *)
Orphaned(k, child) == child.live /\ ~(Obj(k).live /\ Obj(k).uid = child.owner)
Collected(k) ==
  /\ \/ /\ Orphaned(k, RsObj(k))
        /\ Len(replicaSets[k]) < MaxRevisions \/ seen[k] = Latest(k)
        /\ StoreRs(k, [RsObj(k) EXCEPT !.live = FALSE])
        /\ UNCHANGED services
     \/ /\ Orphaned(k, SvcObj(k))
        /\ Len(services[k]) < MaxRevisions \/ seen[k] = Latest(k)
        /\ StoreSvc(k, [SvcObj(k) EXCEPT !.live = FALSE])
        /\ UNCHANGED replicaSets
  /\ UNCHANGED <<runtimeVars, rsSeen, svcSeen, worker>>

(* Somebody deletes the ReplicaSet or the Service, or edits its type.      *)
Meddled(k) ==
  /\ \/ /\ RsObj(k).live
        /\ Disturb("rsdelete")
        /\ StoreRs(k, [RsObj(k) EXCEPT !.live = FALSE])
        /\ UNCHANGED services
     \/ /\ SvcObj(k).live
        /\ Disturb("svcdelete")
        /\ StoreSvc(k, [SvcObj(k) EXCEPT !.live = FALSE])
        /\ UNCHANGED replicaSets
     \/ \E type \in Types \ {SvcObj(k).type} :
        /\ SvcObj(k).live
        /\ Disturb("svcedit")
        /\ StoreSvc(k, [SvcObj(k) EXCEPT !.type = type])
        /\ UNCHANGED replicaSets
  /\ UNCHANGED <<revisions, seen, notify, queue, active, rsSeen, svcSeen, worker>>

-----------------------------------------------------------------------------
(* Reconcile: the ReplicaSet, then the Service, from one copy of the       *)
(* Server.                                                                 *)

BeginSkips(k) ==
  /\ active = NoKey
  /\ k \in queue
  /\ ~Cached(k).live
  /\ queue' = queue \ {k}
  /\ UNCHANGED <<revisions, seen, notify, active, faults, childVars, worker>>

BeginFindsRs(k) ==
  /\ QueueGet(k)
  /\ Cached(k).live /\ CachedRs(k).live
  /\ worker' = [pc |-> "service", snap |-> seen[k]]
  /\ UNCHANGED <<revisions, seen, notify, faults, childVars>>

BeginCreatesRs(k) ==
  /\ QueueGet(k)
  /\ Cached(k).live /\ ~CachedRs(k).live
  /\ ~RsObj(k).live
  /\ StoreRs(k, newReplicaSetForCR(Cached(k)))
  /\ worker' = [pc |-> "service", snap |-> seen[k]]
  /\ UNCHANGED <<revisions, seen, notify, faults, services, rsSeen, svcSeen>>

(* Create is refused because the cache is behind, or fails with or without *)
(* effect: the key is taken and put back.                                  *)
BeginFails(k) ==
  /\ active = NoKey
  /\ k \in queue
  /\ Cached(k).live /\ ~CachedRs(k).live
  /\ \/ RsObj(k).live /\ UNCHANGED <<faults, replicaSets>>
     \/ /\ Disturb("createfails")
        /\ \/ UNCHANGED replicaSets
           \/ ~RsObj(k).live /\ StoreRs(k, newReplicaSetForCR(Cached(k)))
  /\ UNCHANGED <<revisions, seen, notify, queue, active, services, rsSeen, svcSeen, worker>>

Begin(k) == BeginSkips(k) \/ BeginFindsRs(k) \/ BeginCreatesRs(k) \/ BeginFails(k)

Instance == revisions[active][worker.snap]
Wanted   == newServiceForCR(Instance)

CreatesSvc ==
  /\ worker.pc = "service"
  /\ ~CachedSvc(active).live
  /\ ~SvcObj(active).live
  /\ StoreSvc(active, Wanted)
  /\ worker' = [worker EXCEPT !.pc = "wait"]
  /\ UNCHANGED <<runtimeVars, replicaSets, rsSeen, svcSeen>>

CreateSvcFails ==
  /\ worker.pc = "service"
  /\ ~CachedSvc(active).live
  /\ \/ SvcObj(active).live /\ UNCHANGED <<faults, services>>
     \/ /\ Disturb("createfails")
        /\ \/ UNCHANGED services
           \/ ~SvcObj(active).live /\ StoreSvc(active, Wanted)
  /\ Requeue
  /\ worker' = Idle
  /\ UNCHANGED <<revisions, seen, notify, replicaSets, rsSeen, svcSeen>>

(* The cached Service gets the type the Server asks for; a write that      *)
(* changes nothing makes no revision.                                      *)
Retyped == [CachedSvc(active) EXCEPT !.type = Wanted.type]
SetsTypeOnce ==                \* mutant: the type is only set at creation
  /\ worker.pc = "service"
  /\ CachedSvc(active).live
  /\ Done
  /\ worker' = Idle
  /\ UNCHANGED <<revisions, seen, notify, faults, childVars>>
SetsType ==
  /\ worker.pc = "service"
  /\ CachedSvc(active).live
  /\ svcSeen[active] = Len(services[active])
  /\ IF Retyped = CachedSvc(active) THEN UNCHANGED services ELSE StoreSvc(active, Retyped)
  /\ Done
  /\ worker' = Idle
  /\ UNCHANGED <<revisions, seen, notify, faults, replicaSets, rsSeen, svcSeen>>

SetTypeFails ==
  /\ worker.pc = "service"
  /\ CachedSvc(active).live
  /\ \/ svcSeen[active] # Len(services[active]) /\ UNCHANGED <<faults, services>>
     \/ /\ Disturb("updatefails")
        /\ \/ UNCHANGED services
           \/ svcSeen[active] = Len(services[active]) /\ StoreSvc(active, Retyped)
  /\ Requeue
  /\ worker' = Idle
  /\ UNCHANGED <<revisions, seen, notify, replicaSets, rsSeen, svcSeen>>

(* The loop after the creation: until the Service is in the cache.         *)
WaitEnds ==
  /\ worker.pc = "wait"
  /\ CachedSvc(active).live
  /\ Done
  /\ worker' = Idle
  /\ UNCHANGED <<revisions, seen, notify, faults, childVars>>

Proceed == CreatesSvc \/ CreateSvcFails \/ SetsType \/ SetTypeFails \/ WaitEnds

(* The watches announce owned objects too, those of a Server that is gone  *)
(* to no effect.                                                           *)
Crash ==
  /\ Disturb("crash")
  /\ RuntimeRestarts
  /\ rsSeen' = [k \in Keys |-> Len(replicaSets[k])]
  /\ svcSeen' = [k \in Keys |-> Len(services[k])]
  /\ worker' = Idle
  /\ UNCHANGED <<replicaSets, services>>

Next ==
  \/ Proceed
  \/ Crash
  \/ \E k \in Keys :
       \/ Begin(k)
       \/ ChildReceived(k)
       \/ Collected(k)
       \/ Meddled(k)
       \/ (User(k) \/ Informer(k)) /\ UNCHANGED <<childVars, worker>>

Spec == Init /\ [][Next]_vars

(* Watches deliver, the garbage collector works, the queue is first in,    *)
(* first out, and the worker's steps are not suspended.  Nothing is asked  *)
(* of the ten-hour resync.                                                 *)
Fairness ==
  /\ WF_vars(Proceed)
  /\ \A k \in Keys :
       /\ WF_vars(InformerReceives(k) /\ UNCHANGED <<childVars, worker>>)
       /\ WF_vars(HandlerEnqueues(k) /\ UNCHANGED <<childVars, worker>>)
       /\ SF_vars(ChildReceived(k))
       /\ WF_vars(Collected(k))
       /\ SF_vars(Begin(k))
FairSpec == Spec /\ Fairness

-----------------------------------------------------------------------------
(* A Server has what it asks for: a ReplicaSet and a Service of its own,   *)
(* the Service of its type.                                                *)
Served(k) ==
  Obj(k).live => RsObj(k) = newReplicaSetForCR(Obj(k)) /\ SvcObj(k) = newServiceForCR(Obj(k))

(* The worker waits for the Service it created, which is gone already.     *)
Stuck == worker.pc = "wait" /\ ~SvcObj(active).live

(* Whatever has happened, nothing is missing or of another type once there *)
(* is nothing left to do: what the watches announce is enough, and the     *)
(* resync is never needed.                                                 *)
Pending(k) ==
  \/ k \in queue \cup notify
  \/ active = k
  \/ seen[k] < Latest(k)
  \/ rsSeen[k] < Len(replicaSets[k]) \/ svcSeen[k] < Len(services[k])
  \/ Orphaned(k, RsObj(k)) \/ Orphaned(k, SvcObj(k))
SettledIsServed == \A k \in Keys : Pending(k) \/ Served(k)

(* Edits, deletions, stale copies, refused writes and restarts end in      *)
(* every Server being served and staying so, unless the worker waits for a *)
(* Service that was taken away before the loop saw it.                     *)
EveryServerIsServed == <>[]((\A k \in Keys : Served(k)) \/ Stuck)
=============================================================================
