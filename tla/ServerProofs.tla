---------------------------- MODULE ServerProofs ----------------------------
(***************************************************************************)
(* What holds of the Server controller for any number of Servers: its      *)
(* types, and that a Server is served once nothing is left to do for it.   *)
(***************************************************************************)
EXTENDS Server, RuntimeProofs

RsLags(k)  == rsSeen[k] < Len(replicaSets[k])
SvcLags(k) == svcSeen[k] < Len(services[k])

(* The caches show nothing to be done, or one of them is behind.           *)
CacheServed(k) ==
  Cached(k).live =>
    /\ RsLags(k) \/ CachedRs(k).live
    /\ SvcLags(k) \/ (CachedSvc(k).live /\ CachedSvc(k).type = TypeFor(Cached(k).spec))

(* What the worker has seen to, as long as nothing is announced.           *)
WorkerServes(k) ==
  /\ worker.snap = seen[k]
  /\ RsLags(k) \/ CachedRs(k).live
  /\ worker.pc = "wait" => SvcLags(k)

(* A cache never moves without an announcement, so what is not announced   *)
(* is either in hand or was seen to when the caches were as they are.      *)
SeenTo ==
  \A k \in Keys :
    \/ k \in queue \cup notify
    \/ active = k /\ WorkerServes(k)
    \/ active # k /\ CacheServed(k)

ServerInv == TypeOK /\ SeenTo

-----------------------------------------------------------------------------
LEMMA ChildrenTyped ==
  ASSUME TypeOK, NEW k \in Keys
  PROVE  /\ Len(replicaSets[k]) \in Nat /\ Len(services[k]) \in Nat
         /\ Len(replicaSets[k]) >= 1 /\ Len(services[k]) >= 1
         /\ rsSeen[k] \in 1..Len(replicaSets[k]) /\ svcSeen[k] \in 1..Len(services[k])
         /\ rsSeen[k] \in Nat /\ svcSeen[k] \in Nat
         /\ RsObj(k) \in ReplicaSet /\ CachedRs(k) \in ReplicaSet
         /\ SvcObj(k) \in Service /\ CachedSvc(k) \in Service
<1>1. /\ replicaSets[k] \in Seq(ReplicaSet) /\ rsSeen[k] \in 1..Len(replicaSets[k])
      /\ services[k] \in Seq(Service) /\ svcSeen[k] \in 1..Len(services[k])
  BY DEF TypeOK
<1>2. /\ Len(replicaSets[k]) \in Nat /\ replicaSets[k] \in [1..Len(replicaSets[k]) -> ReplicaSet]
      /\ Len(services[k]) \in Nat /\ services[k] \in [1..Len(services[k]) -> Service]
  BY <1>1, LenProperties
<1> QED BY <1>1, <1>2 DEF RsObj, CachedRs, SvcObj, CachedSvc

(* What storing a ReplicaSet or a Service changes.                         *)
LEMMA RsAppends ==
  ASSUME TypeOK, NEW k \in Keys, NEW rs \in ReplicaSet, StoreRs(k, rs), UNCHANGED rsSeen
  PROVE  /\ replicaSets' \in [Keys -> Seq(ReplicaSet)]
         /\ \A j \in Keys : rsSeen[j] \in 1..Len(replicaSets'[j])
         /\ \A j \in Keys : CachedRs(j)' = CachedRs(j) /\ (RsLags(j) => RsLags(j)')
         /\ RsLags(k)'
<1>1. /\ replicaSets' \in [Keys -> Seq(ReplicaSet)]
      /\ Len(replicaSets'[k]) = Len(replicaSets[k]) + 1
      /\ \A n \in 1..Len(replicaSets[k]) : replicaSets'[k][n] = replicaSets[k][n]
      /\ \A j \in Keys \ {k} : replicaSets'[j] = replicaSets[j]
  BY AppendToOne DEF TypeOK, StoreRs
<1>2. \A j \in Keys : Len(replicaSets[j]) \in Nat /\ rsSeen[j] \in 1..Len(replicaSets[j])
                      /\ rsSeen[j] \in Nat
  BY ChildrenTyped
<1>3. rsSeen[k] \in 1..Len(replicaSets'[k]) /\ rsSeen[k] < Len(replicaSets'[k]) BY <1>1, <1>2
<1> QED BY <1>1, <1>2, <1>3 DEF CachedRs, RsLags

LEMMA SvcAppends ==
  ASSUME TypeOK, NEW k \in Keys, NEW svc \in Service, StoreSvc(k, svc), UNCHANGED svcSeen
  PROVE  /\ services' \in [Keys -> Seq(Service)]
         /\ \A j \in Keys : svcSeen[j] \in 1..Len(services'[j])
         /\ \A j \in Keys : CachedSvc(j)' = CachedSvc(j) /\ (SvcLags(j) => SvcLags(j)')
         /\ SvcLags(k)'
<1>1. /\ services' \in [Keys -> Seq(Service)]
      /\ Len(services'[k]) = Len(services[k]) + 1
      /\ \A n \in 1..Len(services[k]) : services'[k][n] = services[k][n]
      /\ \A j \in Keys \ {k} : services'[j] = services[j]
  BY AppendToOne DEF TypeOK, StoreSvc
<1>2. \A j \in Keys : Len(services[j]) \in Nat /\ svcSeen[j] \in 1..Len(services[j])
                      /\ svcSeen[j] \in Nat
  BY ChildrenTyped
<1>3. svcSeen[k] \in 1..Len(services'[k]) /\ svcSeen[k] < Len(services'[k]) BY <1>1, <1>2
<1> QED BY <1>1, <1>2, <1>3 DEF CachedSvc, SvcLags

(* A step that may only add revisions, of Servers or of what they own.     *)
LogsGrow ==
  /\ RuntimeTypeOK' /\ UNCHANGED <<seen, rsSeen, svcSeen>>
  /\ \A k \in Keys : Cached(k)' = Cached(k)
  /\ \/ UNCHANGED replicaSets
     \/ \E k \in Keys : \E rs \in ReplicaSet : StoreRs(k, rs)
  /\ \/ UNCHANGED services
     \/ \E k \in Keys : \E svc \in Service : StoreSvc(k, svc)

LEMMA GrowKeeps ==
  ASSUME TypeOK, LogsGrow
  PROVE  /\ RuntimeTypeOK'
         /\ replicaSets' \in [Keys -> Seq(ReplicaSet)] /\ services' \in [Keys -> Seq(Service)]
         /\ rsSeen' \in [Keys -> Nat] /\ svcSeen' \in [Keys -> Nat]
         /\ \A k \in Keys : /\ rsSeen'[k] \in 1..Len(replicaSets'[k])
                            /\ svcSeen'[k] \in 1..Len(services'[k])
         /\ \A k \in Keys :
              /\ Cached(k)' = Cached(k) /\ seen'[k] = seen[k]
              /\ CachedRs(k)' = CachedRs(k) /\ (RsLags(k) => RsLags(k)')
              /\ CachedSvc(k)' = CachedSvc(k) /\ (SvcLags(k) => SvcLags(k)')
              /\ CacheServed(k) => CacheServed(k)'
<1>1. RuntimeTypeOK' /\ UNCHANGED <<seen, rsSeen, svcSeen>>
      /\ \A k \in Keys : Cached(k)' = Cached(k)
  BY DEF LogsGrow
<1>2. /\ replicaSets' \in [Keys -> Seq(ReplicaSet)]
      /\ \A j \in Keys : rsSeen[j] \in 1..Len(replicaSets'[j])
      /\ \A j \in Keys : CachedRs(j)' = CachedRs(j) /\ (RsLags(j) => RsLags(j)')
  <2>1. CASE UNCHANGED replicaSets BY <1>1, <2>1 DEF TypeOK, CachedRs, RsLags
  <2>2. ASSUME NEW k \in Keys, NEW rs \in ReplicaSet, StoreRs(k, rs)
        PROVE  /\ replicaSets' \in [Keys -> Seq(ReplicaSet)]
               /\ \A j \in Keys : rsSeen[j] \in 1..Len(replicaSets'[j])
               /\ \A j \in Keys : CachedRs(j)' = CachedRs(j) /\ (RsLags(j) => RsLags(j)')
    BY <1>1, <2>2, RsAppends
  <2> QED BY <2>1, <2>2 DEF LogsGrow
<1>3. /\ services' \in [Keys -> Seq(Service)]
      /\ \A j \in Keys : svcSeen[j] \in 1..Len(services'[j])
      /\ \A j \in Keys : CachedSvc(j)' = CachedSvc(j) /\ (SvcLags(j) => SvcLags(j)')
  <2>1. CASE UNCHANGED services BY <1>1, <2>1 DEF TypeOK, CachedSvc, SvcLags
  <2>2. ASSUME NEW k \in Keys, NEW svc \in Service, StoreSvc(k, svc)
        PROVE  /\ services' \in [Keys -> Seq(Service)]
               /\ \A j \in Keys : svcSeen[j] \in 1..Len(services'[j])
               /\ \A j \in Keys : CachedSvc(j)' = CachedSvc(j) /\ (SvcLags(j) => SvcLags(j)')
    BY <1>1, <2>2, SvcAppends
  <2> QED BY <2>1, <2>2 DEF LogsGrow
<1>4. \A k \in Keys : CacheServed(k) => CacheServed(k)' BY <1>1, <1>2, <1>3 DEF CacheServed
<1> QED BY <1>1, <1>2, <1>3, <1>4 DEF TypeOK

(* A step of others that only adds revisions, and maybe announcements.     *)
LEMMA OthersKeep ==
  ASSUME ServerInv, LogsGrow, UNCHANGED <<active, worker>>, queue \cup notify \subseteq queue' \cup notify'
  PROVE  ServerInv'
<1>1. TypeOK' BY GrowKeeps DEF ServerInv, TypeOK, LogsGrow
<1>2. SeenTo'
  <2> SUFFICES ASSUME NEW k \in Keys, k \notin queue' \cup notify'
               PROVE  \/ active = k /\ WorkerServes(k)'
                      \/ active # k /\ CacheServed(k)'
    BY DEF SeenTo
  <2>1. k \notin queue \cup notify OBVIOUS
  <2>2. CASE active = k BY <2>1, <2>2, GrowKeeps DEF ServerInv, SeenTo, WorkerServes
  <2>3. CASE active # k BY <2>1, <2>3, GrowKeeps DEF ServerInv, SeenTo
  <2> QED BY <2>2, <2>3
<1> QED BY <1>1, <1>2 DEF ServerInv

-----------------------------------------------------------------------------
(* The steps of the user, the caches and the cluster.                      *)
LEMMA InitServers == Init => ServerInv
<1> SUFFICES ASSUME Init PROVE ServerInv OBVIOUS
<1>1. RuntimeTypeOK /\ active = NoKey BY InitTyped DEF Init, RuntimeInit
<1> DEFINE rs == [live |-> FALSE, owner |-> 0]
           svc == [live |-> FALSE, owner |-> 0, type |-> "NodePort"]
<1>2. rs \in ReplicaSet /\ svc \in Service BY DEF ReplicaSet, Service, Types
<1> HIDE DEF rs, svc
<1>3. <<rs>> \in Seq(ReplicaSet) /\ Len(<<rs>>) = 1 /\ <<svc>> \in Seq(Service) /\ Len(<<svc>>) = 1
  BY <1>2
<1>4. TypeOK BY <1>1, <1>3 DEF Init, TypeOK, Worker, Idle, rs, svc
<1>5. \A k \in Keys : active # k /\ ~Cached(k).live
  BY <1>1, KeysAssumption DEF Init, RuntimeInit, Cached, Absent
<1> QED BY <1>4, <1>5 DEF ServerInv, SeenTo, CacheServed

LEMMA UserKeeps ==
  ASSUME ServerInv, NEW k \in Keys, User(k), UNCHANGED <<childVars, worker>>
  PROVE  ServerInv'
<1>1. RuntimeTypeOK BY DEF ServerInv, TypeOK
<1>2. /\ RuntimeTypeOK' /\ UNCHANGED <<seen, notify, queue, active>>
      /\ \A j \in Keys : Cached(j)' = Cached(j)
  BY <1>1, UserTyped
<1> QED BY <1>2, OthersKeep DEF LogsGrow, childVars

LEMMA InformerKeeps ==
  ASSUME ServerInv, NEW k \in Keys, Informer(k), UNCHANGED <<childVars, worker>>
  PROVE  ServerInv'
<1>1. RuntimeTypeOK BY DEF ServerInv, TypeOK
<1>2. /\ RuntimeTypeOK' /\ UNCHANGED <<revisions, active>>
      /\ \A j \in Keys : seen[j] <= seen'[j]
  BY <1>1, InformerTyped
<1>3. CASE UNCHANGED seen
  <2>1. queue \cup notify \subseteq queue' \cup notify'
    BY DEF Informer, InformerReceives, HandlerEnqueues, Resync, ResyncLags
  <2>2. LogsGrow BY <1>2, <1>3 DEF LogsGrow, childVars, Cached
  <2> QED BY <1>2, <2>1, <2>2, OthersKeep
<1>4. CASE InformerReceives(k)
  <2>1. /\ seen' = [seen EXCEPT ![k] = @ + 1] /\ notify' = notify \cup {k}
        /\ UNCHANGED <<queue, revisions>>
    BY <1>4 DEF InformerReceives
  <2>2. UNCHANGED <<active, worker, replicaSets, services, rsSeen, svcSeen>>
    BY <1>2 DEF childVars
  <2>3. ASSUME active # NoKey PROVE worker.snap \in 1..seen'[active]
    <3>1. /\ active \in Keys /\ worker.snap \in 1..seen[active] /\ seen[active] \in Nat
          /\ seen'[active] \in Nat
      BY <1>1, <1>2, <2>3 DEF ServerInv, TypeOK, RuntimeTypeOK
    <3> QED BY <1>2, <3>1
  <2>4. TypeOK' BY <1>2, <2>2, <2>3 DEF ServerInv, TypeOK
  <2>5. SeenTo'
    <3> SUFFICES ASSUME NEW j \in Keys, j \notin queue' \cup notify'
                 PROVE  \/ active = j /\ WorkerServes(j)'
                        \/ active # j /\ CacheServed(j)'
      BY <2>2 DEF SeenTo
    <3>1. j \notin queue \cup notify /\ j # k /\ seen'[j] = seen[j]
      BY <1>1, <2>1 DEF RuntimeTypeOK
    <3>2. /\ Cached(j)' = Cached(j) /\ CachedRs(j)' = CachedRs(j) /\ RsLags(j)' = RsLags(j)
          /\ CachedSvc(j)' = CachedSvc(j) /\ SvcLags(j)' = SvcLags(j)
      BY <2>1, <2>2, <3>1 DEF Cached, CachedRs, CachedSvc, RsLags, SvcLags
    <3> QED BY <2>2, <3>1, <3>2 DEF ServerInv, SeenTo, WorkerServes, CacheServed
  <2> QED BY <2>4, <2>5 DEF ServerInv
<1> QED BY <1>3, <1>4 DEF Informer, HandlerEnqueues, Resync, ResyncLags

LEMMA ReceivedKeeps ==
  ASSUME ServerInv, NEW k \in Keys, ChildReceived(k)
  PROVE  ServerInv'
<1>1. /\ notify' = notify \cup {k}
      /\ UNCHANGED <<revisions, seen, queue, active, faults, replicaSets, services, worker>>
  BY DEF ChildReceived
<1>2. RuntimeTypeOK' BY <1>1 DEF ServerInv, TypeOK, RuntimeTypeOK
<1>3. /\ rsSeen' \in [Keys -> Nat] /\ svcSeen' \in [Keys -> Nat]
      /\ \A j \in Keys : /\ rsSeen'[j] \in 1..Len(replicaSets[j])
                         /\ svcSeen'[j] \in 1..Len(services[j])
      /\ \A j \in Keys \ {k} : rsSeen'[j] = rsSeen[j] /\ svcSeen'[j] = svcSeen[j]
  <2>1. \A j \in Keys : /\ Len(replicaSets[j]) \in Nat /\ Len(services[j]) \in Nat
                       /\ rsSeen[j] \in 1..Len(replicaSets[j]) /\ svcSeen[j] \in 1..Len(services[j])
                       /\ rsSeen[j] \in Nat /\ svcSeen[j] \in Nat
    BY ChildrenTyped DEF ServerInv
  <2>2. rsSeen \in [Keys -> Nat] /\ svcSeen \in [Keys -> Nat] BY DEF ServerInv, TypeOK
  <2>3. CASE rsSeen[k] < Len(replicaSets[k]) /\ rsSeen' = [rsSeen EXCEPT ![k] = @ + 1]
             /\ UNCHANGED svcSeen
    BY <2>1, <2>2, <2>3
  <2>4. CASE svcSeen[k] < Len(services[k]) /\ svcSeen' = [svcSeen EXCEPT ![k] = @ + 1]
             /\ UNCHANGED rsSeen
    BY <2>1, <2>2, <2>4
  <2> QED BY <2>3, <2>4 DEF ChildReceived
<1>4. TypeOK' BY <1>1, <1>2, <1>3 DEF ServerInv, TypeOK
<1>5. SeenTo'
  <2> SUFFICES ASSUME NEW j \in Keys, j \notin queue' \cup notify'
               PROVE  \/ active = j /\ WorkerServes(j)'
                      \/ active # j /\ CacheServed(j)'
    BY <1>1 DEF SeenTo
  <2>1. j \notin queue \cup notify /\ j # k BY <1>1
  <2>2. /\ Cached(j)' = Cached(j) /\ CachedRs(j)' = CachedRs(j) /\ RsLags(j)' = RsLags(j)
        /\ CachedSvc(j)' = CachedSvc(j) /\ SvcLags(j)' = SvcLags(j)
    BY <1>1, <1>3, <2>1 DEF Cached, CachedRs, CachedSvc, RsLags, SvcLags
  <2> QED BY <1>1, <2>1, <2>2 DEF ServerInv, SeenTo, WorkerServes, CacheServed
<1> QED BY <1>4, <1>5 DEF ServerInv

LEMMA ClusterKeeps ==
  ASSUME ServerInv, NEW k \in Keys, Collected(k) \/ Meddled(k)
  PROVE  ServerInv'
<1>1. UNCHANGED <<revisions, seen, notify, queue, active, rsSeen, svcSeen, worker>>
      /\ faults' \subseteq Faults
  <2>1. RuntimeTypeOK BY DEF ServerInv, TypeOK
  <2> QED BY <2>1, DisturbCounts DEF Collected, Meddled, runtimeVars, RuntimeTypeOK
<1>2. RuntimeTypeOK' /\ \A j \in Keys : Cached(j)' = Cached(j)
  BY <1>1 DEF ServerInv, TypeOK, RuntimeTypeOK, Cached
<1>3. RsObj(k) \in ReplicaSet /\ SvcObj(k) \in Service BY ChildrenTyped DEF ServerInv
<1>4. /\ [RsObj(k) EXCEPT !.live = FALSE] \in ReplicaSet
      /\ [SvcObj(k) EXCEPT !.live = FALSE] \in Service
      /\ \A type \in Types : [SvcObj(k) EXCEPT !.type = type] \in Service
  BY <1>3 DEF ReplicaSet, Service
<1>5. LogsGrow BY <1>1, <1>2, <1>4 DEF LogsGrow, Collected, Meddled
<1> QED BY <1>1, <1>5, OthersKeep

LEMMA CrashKeeps ==
  ASSUME ServerInv, Crash
  PROVE  ServerInv'
<1>1. RuntimeTypeOK /\ faults' \subseteq Faults
  BY DisturbCounts DEF ServerInv, TypeOK, Crash
<1>2. RuntimeTypeOK' /\ active' = NoKey BY <1>1, RestartTyped DEF Crash
<1>3. \A k \in Keys : /\ Len(replicaSets[k]) \in Nat /\ Len(services[k]) \in Nat
                     /\ Len(replicaSets[k]) >= 1 /\ Len(services[k]) >= 1
  BY ChildrenTyped DEF ServerInv
<1>4. TypeOK' BY <1>2, <1>3 DEF ServerInv, TypeOK, Crash, Idle, Worker
<1>5. \A k \in Keys : k \notin notify' => ~Cached(k)'.live
  BY <1>1 DEF Crash, RuntimeRestarts, Cached, Obj, Latest
<1>6. SeenTo' BY <1>2, <1>5, KeysAssumption DEF SeenTo, CacheServed
<1> QED BY <1>4, <1>6 DEF ServerInv

-----------------------------------------------------------------------------
(* The steps of the worker.                                                *)
LEMMA BeginKeeps ==
  ASSUME ServerInv, NEW k \in Keys, Begin(k)
  PROVE  ServerInv'
<1>1. /\ RuntimeTypeOK /\ active = NoKey /\ k \in queue /\ k # NoKey
      /\ UNCHANGED <<revisions, seen, notify, rsSeen, svcSeen, services>>
      /\ faults' \subseteq Faults /\ queue' \subseteq queue
  <2>1. RuntimeTypeOK BY DEF ServerInv, TypeOK
  <2> QED BY <2>1, KeysAssumption, DisturbCounts
      DEF Begin, BeginSkips, BeginFindsRs, BeginCreatesRs, BeginFails, QueueGet, childVars,
          RuntimeTypeOK
<1>2. \A j \in Keys : Cached(j)' = Cached(j) BY <1>1 DEF Cached
<1>3. Cached(k) \in Object /\ seen[k] \in Nat /\ seen[k] \in 1..seen[k]
  <2>1. Cached(k) \in Object /\ seen[k] \in 1..Latest(k) /\ Latest(k) \in Nat
    BY <1>1, ObjectsTyped
  <2> QED BY <2>1
<1>4. newReplicaSetForCR(Cached(k)) \in ReplicaSet
  BY <1>3 DEF newReplicaSetForCR, ReplicaSet, Object
(* A key that is skipped or put back: nobody works on anything.            *)
<1>5. ASSUME UNCHANGED <<active, worker>>, queue' = queue \ {k} \/ queue' = queue,
             UNCHANGED replicaSets \/ StoreRs(k, newReplicaSetForCR(Cached(k))),
             k \in queue' \/ ~Cached(k).live
      PROVE  ServerInv'
  <2>1. RuntimeTypeOK' BY <1>1, <1>5 DEF RuntimeTypeOK
  <2>2. LogsGrow BY <1>1, <1>2, <1>4, <1>5, <2>1 DEF LogsGrow
  <2>3. TypeOK' BY <1>1, <1>5, <2>2, GrowKeeps DEF ServerInv, TypeOK
  <2>4. SeenTo'
    <3> SUFFICES ASSUME NEW j \in Keys, j \notin queue' \cup notify' PROVE active # j /\ CacheServed(j)'
      BY <1>5 DEF SeenTo
    <3>1. active # j BY <1>1, KeysAssumption
    <3>2. CASE j = k BY <1>2, <1>5, <3>1, <3>2 DEF CacheServed
    <3>3. CASE j # k
      <4>1. j \notin queue \cup notify BY <1>1, <1>5, <3>3
      <4>2. CacheServed(j) BY <3>1, <4>1 DEF ServerInv, SeenTo
      <4> QED BY <2>2, <3>1, <4>2, GrowKeeps DEF ServerInv
    <3> QED BY <3>2, <3>3
  <2> QED BY <2>3, <2>4 DEF ServerInv
(* A key that is taken: there is a ReplicaSet, or one is on its way.       *)
<1>6. ASSUME QueueGet(k), worker' = [pc |-> "service", snap |-> seen[k]],
             \/ UNCHANGED replicaSets /\ CachedRs(k).live
             \/ StoreRs(k, newReplicaSetForCR(Cached(k)))
      PROVE  ServerInv'
  <2>1. active' = k /\ queue' = queue \ {k} BY <1>6 DEF QueueGet
  <2>2. RuntimeTypeOK' BY <1>1, <2>1 DEF RuntimeTypeOK
  <2>3. LogsGrow BY <1>1, <1>2, <1>4, <1>6, <2>2 DEF LogsGrow
  <2>4. TypeOK' BY <1>1, <1>3, <1>6, <2>1, <2>3, GrowKeeps DEF ServerInv, TypeOK, Worker
  <2>5. RsLags(k)' \/ CachedRs(k)'.live
    <3>1. CASE UNCHANGED replicaSets /\ CachedRs(k).live BY <1>1, <3>1 DEF CachedRs
    <3>2. CASE StoreRs(k, newReplicaSetForCR(Cached(k)))
      BY <1>1, <1>4, <3>2, RsAppends DEF ServerInv
    <3> QED BY <1>6, <3>1, <3>2
  <2>6. SeenTo'
    <3> SUFFICES ASSUME NEW j \in Keys, j \notin queue' \cup notify'
                 PROVE  \/ k = j /\ WorkerServes(j)'
                        \/ k # j /\ CacheServed(j)'
      BY <2>1 DEF SeenTo
    <3>1. CASE j = k BY <1>1, <1>6, <2>5, <3>1 DEF WorkerServes
    <3>2. CASE j # k
      <4>1. j \notin queue \cup notify /\ active # j BY <1>1, <2>1, <3>2, KeysAssumption
      <4>2. CacheServed(j) BY <4>1 DEF ServerInv, SeenTo
      <4> QED BY <2>3, <3>2, <4>2, GrowKeeps DEF ServerInv
    <3> QED BY <3>1, <3>2
  <2> QED BY <2>4, <2>6 DEF ServerInv
<1>7. CASE BeginSkips(k) BY <1>5, <1>7 DEF BeginSkips, childVars
<1>8. CASE BeginFails(k) BY <1>1, <1>5, <1>8 DEF BeginFails
<1>9. CASE BeginFindsRs(k) BY <1>6, <1>9 DEF BeginFindsRs, childVars
<1>10. CASE BeginCreatesRs(k) BY <1>6, <1>10 DEF BeginCreatesRs
<1> QED BY <1>7, <1>8, <1>9, <1>10 DEF Begin

LEMMA ProceedKeeps ==
  ASSUME ServerInv, Proceed
  PROVE  ServerInv'
<1>1. /\ RuntimeTypeOK /\ active # NoKey /\ worker \in Worker
      /\ UNCHANGED <<revisions, seen, notify, replicaSets, rsSeen, svcSeen>>
      /\ faults' \subseteq Faults
  <2>1. RuntimeTypeOK BY DEF ServerInv, TypeOK
  <2> QED BY <2>1, DisturbCounts
      DEF Proceed, CreatesSvc, CreateSvcFails, SetsType, SetTypeFails, WaitEnds, ServerInv, TypeOK,
          runtimeVars, childVars, RuntimeTypeOK
<1> SUFFICES ASSUME NEW k \in Keys, active = k PROVE ServerInv' BY <1>1 DEF RuntimeTypeOK
<1>2. \A j \in Keys : Cached(j)' = Cached(j) BY <1>1 DEF Cached
<1>3. worker.snap \in 1..seen[k] /\ worker.snap \in 1..Latest(k) /\ Instance \in Object
  <2>1. worker.snap \in 1..seen[k] BY <1>1 DEF ServerInv, TypeOK
  <2>2. /\ seen[k] \in 1..Latest(k) /\ Latest(k) \in Nat
        /\ \A n \in 1..Latest(k) : revisions[k][n] \in Object
    BY <1>1, ObjectsTyped
  <2>3. worker.snap \in 1..Latest(k) BY <2>1, <2>2
  <2> QED BY <2>1, <2>2, <2>3 DEF Instance
<1>4. CachedSvc(k) \in Service BY ChildrenTyped DEF ServerInv
<1>5. Wanted \in Service /\ Retyped \in Service
  BY <1>3, <1>4 DEF Wanted, Retyped, newServiceForCR, TypeFor, Types, Service, Object
<1>6. UNCHANGED services \/ StoreSvc(k, Wanted) \/ StoreSvc(k, Retyped)
  BY DEF Proceed, CreatesSvc, CreateSvcFails, SetsType, SetTypeFails, WaitEnds, childVars
<1>7. queue \subseteq queue' /\ queue' \subseteq Keys
      /\ \/ active' = NoKey /\ worker' = Idle
         \/ active' = active /\ worker' = [worker EXCEPT !.pc = "wait"]
  BY <1>1 DEF Proceed, CreatesSvc, CreateSvcFails, SetsType, SetTypeFails, WaitEnds, Done, Requeue,
          runtimeVars, RuntimeTypeOK
<1>8. RuntimeTypeOK' BY <1>1, <1>7 DEF RuntimeTypeOK
<1>9. LogsGrow BY <1>1, <1>2, <1>5, <1>6, <1>8 DEF LogsGrow
<1>10. TypeOK'
  <2>1. worker' \in Worker BY <1>1, <1>7 DEF Idle, Worker
  <2>2. worker'.pc = "idle" <=> active' = NoKey BY <1>1, <1>7 DEF Idle, Worker
  <2>3. active' # NoKey => worker'.snap \in 1..seen'[active'] BY <1>1, <1>3, <1>7 DEF Worker
  <2> QED BY <1>9, <2>1, <2>2, <2>3, GrowKeeps DEF ServerInv, TypeOK
<1>11. ASSUME k \notin queue' \cup notify'
       PROVE  \/ active' = k /\ WorkerServes(k)'
              \/ active' # k /\ CacheServed(k)'
  <2>1. WorkerServes(k) BY <1>1, <1>7, <1>11 DEF ServerInv, SeenTo
  <2>2. RsLags(k)' \/ CachedRs(k)'.live BY <1>9, <2>1, GrowKeeps DEF ServerInv, WorkerServes
  <2>3. Instance = Cached(k) BY <2>1 DEF WorkerServes, Instance, Cached
  <2>4. ASSUME SvcLags(k)' PROVE CacheServed(k)' BY <2>2, <2>4 DEF CacheServed
  <2>5. CASE CreatesSvc
    <3>1. StoreSvc(k, Wanted) /\ active' = k /\ worker' = [worker EXCEPT !.pc = "wait"]
      BY <2>5 DEF CreatesSvc, runtimeVars
    <3>2. SvcLags(k)' BY <1>1, <1>5, <3>1, SvcAppends DEF ServerInv
    <3>3. worker'.snap = seen'[k] BY <1>1, <2>1, <3>1 DEF WorkerServes, Worker
    <3> QED BY <2>2, <3>1, <3>2, <3>3 DEF WorkerServes
  <2>6. CASE CreateSvcFails \/ SetTypeFails
    BY <1>11, <2>6 DEF CreateSvcFails, SetTypeFails, Requeue
  <2>7. CASE SetsType
    <3>1. active' # k BY <1>1, <2>7 DEF SetsType, Done
    <3>2. CASE Retyped = CachedSvc(k) /\ UNCHANGED services
      <4>1. Wanted.type = TypeFor(Cached(k).spec) BY <2>3 DEF Wanted, newServiceForCR
      <4>2. Retyped.type = Wanted.type BY <1>4 DEF Retyped, Service
      <4>3. CachedSvc(k).live /\ CachedSvc(k).type = TypeFor(Cached(k).spec)
        BY <2>7, <3>2, <4>1, <4>2 DEF SetsType
      <4>4. CachedSvc(k)' = CachedSvc(k) BY <1>9, GrowKeeps DEF ServerInv
      <4> QED BY <1>2, <2>2, <3>1, <4>3, <4>4 DEF CacheServed
    <3>3. CASE StoreSvc(k, Retyped)
      <4>1. SvcLags(k)' BY <1>1, <1>5, <3>3, SvcAppends DEF ServerInv
      <4> QED BY <2>4, <3>1, <4>1
    <3> QED BY <2>7, <3>2, <3>3 DEF SetsType
  <2>8. CASE WaitEnds
    <3>1. active' # k /\ worker.pc = "wait" BY <1>1, <2>8 DEF WaitEnds, Done
    <3>2. SvcLags(k)' BY <1>9, <2>1, <3>1, GrowKeeps DEF ServerInv, WorkerServes
    <3> QED BY <2>4, <3>1, <3>2
  <2> QED BY <2>5, <2>6, <2>7, <2>8 DEF Proceed
<1>12. SeenTo'
  <2> SUFFICES ASSUME NEW j \in Keys, j \notin queue' \cup notify'
               PROVE  \/ active' = j /\ WorkerServes(j)'
                      \/ active' # j /\ CacheServed(j)'
    BY DEF SeenTo
  <2>1. CASE j = k BY <1>11, <2>1
  <2>2. CASE j # k
    <3>1. j \notin queue \cup notify /\ active # j /\ active' # j
      BY <1>1, <1>7, <2>2, KeysAssumption
    <3>2. CacheServed(j) BY <3>1 DEF ServerInv, SeenTo
    <3> QED BY <1>9, <3>1, <3>2, GrowKeeps DEF ServerInv
  <2> QED BY <2>1, <2>2
<1> QED BY <1>10, <1>12 DEF ServerInv

LEMMA NextKeeps ==
  ASSUME ServerInv, [Next]_vars
  PROVE  ServerInv'
<1>1. CASE UNCHANGED vars
  <2>1. /\ UNCHANGED <<revisions, seen, notify, queue, active, faults, worker>>
        /\ UNCHANGED <<replicaSets, services, rsSeen, svcSeen>>
    BY <1>1 DEF vars, runtimeVars, childVars
  <2>2. RuntimeTypeOK' BY <2>1 DEF ServerInv, TypeOK, RuntimeTypeOK
  <2>3. LogsGrow BY <2>1, <2>2 DEF LogsGrow, Cached
  <2> QED BY <2>1, <2>3, OthersKeep
<1>2. CASE Next
  BY <1>2, ProceedKeeps, CrashKeeps, BeginKeeps, ReceivedKeeps, ClusterKeeps, UserKeeps, InformerKeeps
  DEF Next
<1> QED BY <1>1, <1>2

LEMMA Invariance == Spec => []ServerInv
<1> QED BY InitServers, NextKeeps, PTL DEF Spec

-----------------------------------------------------------------------------
(* The logs, the caches and the worker's copy keep their types.            *)
THEOREM TypeCorrect == Spec => []TypeOK
<1>1. ServerInv => TypeOK BY DEF ServerInv
<1> QED BY <1>1, Invariance, PTL

(* Once nothing is left to do, every Server has the ReplicaSet and the     *)
(* Service it asks for: no edit, deletion, refused write or restart gets   *)
(* by without being announced and seen to.                                 *)
THEOREM SettledServersAreServed == Spec => []SettledIsServed
<1>1. ServerInv => SettledIsServed
  <2> SUFFICES ASSUME ServerInv, NEW k \in Keys, ~Pending(k), Obj(k).live
               PROVE  RsObj(k) = newReplicaSetForCR(Obj(k)) /\ SvcObj(k) = newServiceForCR(Obj(k))
    BY DEF SettledIsServed, Served
  <2>1. /\ RuntimeTypeOK /\ seen[k] \in Nat /\ Latest(k) \in Nat /\ seen[k] \in 1..Latest(k)
    <3>1. RuntimeTypeOK BY DEF ServerInv, TypeOK
    <3> QED BY <3>1, ObjectsTyped DEF RuntimeTypeOK
  <2>2. /\ Len(replicaSets[k]) \in Nat /\ Len(services[k]) \in Nat
        /\ rsSeen[k] \in 1..Len(replicaSets[k]) /\ svcSeen[k] \in 1..Len(services[k])
        /\ RsObj(k) \in ReplicaSet /\ SvcObj(k) \in Service
    BY ChildrenTyped DEF ServerInv
  <2>3. /\ k \notin queue \cup notify /\ active # k
        /\ ~(seen[k] < Latest(k)) /\ ~RsLags(k) /\ ~SvcLags(k)
        /\ ~Orphaned(k, RsObj(k)) /\ ~Orphaned(k, SvcObj(k))
    BY DEF Pending, RsLags, SvcLags
  <2>4. seen[k] = Latest(k) /\ rsSeen[k] = Len(replicaSets[k]) /\ svcSeen[k] = Len(services[k])
    BY <2>1, <2>2, <2>3 DEF RsLags, SvcLags
  <2>5. Cached(k) = Obj(k) /\ CachedRs(k) = RsObj(k) /\ CachedSvc(k) = SvcObj(k)
    BY <2>4 DEF Cached, Obj, CachedRs, RsObj, CachedSvc, SvcObj
  <2>6. RsObj(k).live /\ SvcObj(k).live /\ SvcObj(k).type = TypeFor(Obj(k).spec)
    BY <2>3, <2>5 DEF ServerInv, SeenTo, CacheServed
  <2>7. RsObj(k).owner = Obj(k).uid /\ SvcObj(k).owner = Obj(k).uid
    BY <2>3, <2>6 DEF Orphaned
  <2> QED BY <2>2, <2>6, <2>7 DEF ReplicaSet, Service, newReplicaSetForCR, newServiceForCR
<1> QED BY <1>1, Invariance, PTL
=============================================================================
