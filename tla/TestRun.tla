------------------------------ MODULE TestRun ------------------------------
(***************************************************************************)
(* The TestRun controller: it works through the plan of a request, one     *)
(* child CurlTest or LoadTest at a time, and reports Finished when the     *)
(* plan is done, a failed child asks to stop, or a child cannot be created.*)
(*                                                                         *)
(* The children are seen from outside: a child gets one result, which      *)
(* stays (OneResult of CurlTest and LoadTest), and disappears with its     *)
(* run.  Like the runs, they are logs of revisions with a lagging cache.   *)
(***************************************************************************)
EXTENDS Runtime, TestOrder

CONSTANT MaxChildRevisions  \* bound: with so many the garbage collector rests

ASSUME FinishedAssumption == "Finished" \in Statuses \ {Blank}
ASSUME SpecsAssumption    == Specs \subseteq Request

VARIABLES
  children,   \* per name, every revision of the child test
  childSeen,  \* the last of them in the cache
  worker      \* the local variables of Reconcile

childVars == <<children, childSeen>>
vars == <<runtimeVars, childVars, worker>>

(* A child is named after its run, its slot and its kind.                  *)
NameOf(k, p) == <<k, p.slot, p.kind>>
Names == {NameOf(k, p) : k \in Keys, p \in UNION {Placed(spec) : spec \in Specs}}

Results == {"none", "Success", "Failure"}  \* none is "" in the code
Child == [live: BOOLEAN, owner: Nat, stop: BOOLEAN, result: Results]
NoChild == [live |-> FALSE, owner |-> 0, stop |-> FALSE, result |-> "none"]

Worker == [pc: {"idle", "launch", "wait", "finish"}, snap: Nat, at: Nat]
Idle == [pc |-> "idle", snap |-> 0, at |-> 0]

TypeOK ==
  /\ RuntimeTypeOK
  /\ children \in [Names -> Seq(Child)]
  /\ childSeen \in [Names -> Nat]
  /\ \A n \in Names : childSeen[n] \in 1..Len(children[n])
  /\ worker \in Worker
  /\ worker.pc = "idle" <=> active = NoKey
  /\ active # NoKey => worker.snap \in 1..seen[active]

Init ==
  /\ RuntimeInit
  /\ children = [n \in Names |-> <<NoChild>>]
  /\ childSeen = [n \in Names |-> 1]
  /\ worker = Idle

ChildObj(n)    == children[n][Len(children[n])]
CachedChild(n) == children[n][childSeen[n]]
StoreChild(n, child) == children' = [children EXCEPT ![n] = Append(@, child)]

-----------------------------------------------------------------------------
(* The children, as their controllers and the cluster change them.         *)

ChildDecided(n, result) ==
  /\ ChildObj(n).live /\ ChildObj(n).result = "none"
  /\ StoreChild(n, [ChildObj(n) EXCEPT !.result = result])
  /\ UNCHANGED childSeen

ChildSeen(n) ==
  /\ childSeen[n] < Len(children[n])
  /\ childSeen' = [childSeen EXCEPT ![n] = @ + 1]
  /\ UNCHANGED children

ChildCollected(n) ==
  /\ ChildObj(n).live
  /\ ~(Obj(n[1]).live /\ Obj(n[1]).uid = ChildObj(n).owner)
  /\ Len(children[n]) < MaxChildRevisions
  /\ StoreChild(n, [ChildObj(n) EXCEPT !.live = FALSE])
  /\ UNCHANGED childSeen

ChildDeleted(n) ==
  /\ ChildObj(n).live
  /\ Disturb("childdelete")
  /\ StoreChild(n, [ChildObj(n) EXCEPT !.live = FALSE])
  /\ UNCHANGED childSeen

Children(n) ==
  \/ /\ (\E result \in {"Success", "Failure"} : ChildDecided(n, result))
          \/ ChildSeen(n) \/ ChildCollected(n)
     /\ UNCHANGED <<runtimeVars, worker>>
  \/ /\ ChildDeleted(n)
     /\ UNCHANGED <<revisions, seen, notify, queue, active, worker>>

-----------------------------------------------------------------------------
(* The worker.                                                             *)

BeginSkips(k) ==
  /\ active = NoKey
  /\ k \in queue
  /\ ~Cached(k).live \/ Cached(k).status = "Finished"
  /\ queue' = queue \ {k}
  /\ UNCHANGED <<revisions, seen, notify, active, faults, childVars, worker>>

BeginRuns(k) ==
  /\ QueueGet(k)
  /\ Cached(k).live /\ Cached(k).status # "Finished"
  /\ worker' = [pc |-> "launch", snap |-> seen[k], at |-> 1]
  /\ UNCHANGED <<revisions, seen, notify, faults, childVars>>

PlanOf == [spec \in Specs |-> Plan(spec)]

Instance == revisions[active][worker.snap]
Steps == PlanOf[Instance.spec]
Step == Steps[worker.at]
Name == NameOf(active, Step)

GoTo(pc) == worker' = [worker EXCEPT !.pc = pc]
Advance  == worker' = [worker EXCEPT !.pc = "launch", !.at = @ + 1]

PlanDoneEarly ==                \* mutant: the last test is left out
  /\ worker.pc = "launch"
  /\ worker.at >= Len(Steps)
  /\ GoTo("finish")
  /\ UNCHANGED <<runtimeVars, childVars>>
PlanDone ==
  /\ worker.pc = "launch"
  /\ worker.at > Len(Steps)
  /\ GoTo("finish")
  /\ UNCHANGED <<runtimeVars, childVars>>

LaunchFinds ==
  /\ worker.pc = "launch"
  /\ worker.at <= Len(Steps)
  /\ CachedChild(Name).live
  /\ GoTo("wait")
  /\ UNCHANGED <<runtimeVars, childVars>>

newTestCR(uid, stop) == [live |-> TRUE, owner |-> uid, stop |-> stop, result |-> "none"]

LaunchCreatesOnly ==            \* mutant: the result is not waited for
  /\ worker.pc = "launch"
  /\ worker.at <= Len(Steps)
  /\ ~CachedChild(Name).live
  /\ ~ChildObj(Name).live
  /\ StoreChild(Name, newTestCR(Instance.uid, Step.stop))
  /\ Advance
  /\ UNCHANGED <<runtimeVars, childSeen>>
LaunchCreates ==
  /\ worker.pc = "launch"
  /\ worker.at <= Len(Steps)
  /\ ~CachedChild(Name).live
  /\ ~ChildObj(Name).live
  /\ StoreChild(Name, newTestCR(Instance.uid, Step.stop))
  /\ GoTo("wait")
  /\ UNCHANGED <<runtimeVars, childSeen>>

(* Create is refused, or fails with or without effect: break leaves the    *)
(* loop over the whole plan.                                               *)
LaunchFails ==
  /\ worker.pc = "launch"
  /\ worker.at <= Len(Steps)
  /\ ~CachedChild(Name).live
  /\ \/ ChildObj(Name).live /\ UNCHANGED <<faults, children>>
     \/ /\ ~ChildObj(Name).live
        /\ Disturb("createfails")
        /\ UNCHANGED children \/ StoreChild(Name, newTestCR(Instance.uid, Step.stop))
  /\ GoTo("finish")
  /\ UNCHANGED <<revisions, seen, notify, queue, active, childSeen>>

(* A child that is missing or has no result yet is waited for.             *)
WaitEndsRegardless ==           \* mutant: StopOnFailure is not looked at
  /\ worker.pc = "wait"
  /\ CachedChild(Name).live
  /\ CachedChild(Name).result # "none"
  /\ Advance
  /\ UNCHANGED <<runtimeVars, childVars>>
WaitEndsOnSuccess ==            \* mutant: only a Success ends the wait
  /\ worker.pc = "wait"
  /\ CachedChild(Name).live
  /\ CachedChild(Name).result = "Success"
  /\ Advance
  /\ UNCHANGED <<runtimeVars, childVars>>
WaitEnds ==
  /\ worker.pc = "wait"
  /\ CachedChild(Name).live
  /\ CachedChild(Name).result # "none"
  /\ IF CachedChild(Name).result = "Failure" /\ CachedChild(Name).stop
     THEN GoTo("finish")
     ELSE Advance
  /\ UNCHANGED <<runtimeVars, childVars>>

updateStatus ==
  /\ worker.pc = "finish"
  /\ WriteStatus(active, worker.snap, "Finished")
  /\ Done
  /\ worker' = Idle
  /\ UNCHANGED <<seen, notify, childVars>>

Begin(k) == BeginSkips(k) \/ BeginRuns(k)
Proceed  == PlanDone \/ LaunchFinds \/ LaunchCreates \/ LaunchFails \/ WaitEnds \/ updateStatus

(* The process dies; "panics" stands for another controller that kills it, *)
(* as often as it likes.                                                   *)
Crash ==
  /\ \/ Disturb("crash")
     \/ "panics" \in Faults /\ UNCHANGED faults
  /\ RuntimeRestarts
  /\ childSeen' = [n \in Names |-> Len(children[n])]
  /\ worker' = Idle
  /\ UNCHANGED children

Next ==
  \/ Proceed
  \/ Crash
  \/ \E k \in Keys :
       \/ Begin(k)
       \/ (User(k) \/ Informer(k)) /\ UNCHANGED <<childVars, worker>>
  \/ \E n \in Names : Children(n)

Spec == Init /\ [][Next]_vars

(* Watches deliver, every child gets a result, the queue is first in,      *)
(* first out, and the worker's steps are not suspended.                    *)
Fairness ==
  /\ WF_vars(Proceed)
  /\ \A k \in Keys :
       /\ WF_vars(InformerReceives(k) /\ UNCHANGED <<childVars, worker>>)
       /\ WF_vars(HandlerEnqueues(k) /\ UNCHANGED <<childVars, worker>>)
       /\ WF_vars(Resync(k) /\ UNCHANGED <<childVars, worker>>)
       /\ SF_vars(Begin(k))
  /\ \A n \in Names : WF_vars(Children(n) /\ UNCHANGED faults)
FairSpec == Spec /\ Fairness

-----------------------------------------------------------------------------
(* The tests of a run never overlap: of the children of one incarnation at *)
(* most one is without a result, over restarts, failed creations and       *)
(* refused status writes.  A worker that starts over after a test is       *)
(* deleted or the plan is changed may start a test beside a later one.     *)
ChildrenOf(k) == {n \in Names : n[1] = k /\ ChildObj(n).live
                                 /\ ChildObj(n).owner = Obj(k).uid}
OneAtATime ==
  Without({"edit", "childdelete", "recreate"}) =>
    \A k \in Keys : Obj(k).live =>
      Cardinality({n \in ChildrenOf(k) : ChildObj(n).result = "none"}) <= 1

(* After a failure that asks to stop, no later test of the run is started. *)
(* The user may undo this: by a change of the request, by deleting a test  *)
(* of it, and by making the run anew while tests of the old one are there, *)
(* which the new one takes for its own.                                    *)
Stops(n) == ChildObj(n).result = "Failure" /\ ChildObj(n).stop
StopIsObeyed ==
  Without({"edit", "childdelete", "recreate"}) =>
    \A k \in Keys : Obj(k).live =>
      \A m, n \in ChildrenOf(k) : Stops(m) => n[2] <= m[2]

(* Finished means that the run is over: every test of the plan got its     *)
(* result, up to one that failed and asked to stop.                        *)
Got(n, uid) == {r \in Range(children[n]) : r.owner = uid /\ r.result # "none"}
Over(k, revision) ==
  LET plan == PlanOf[revision.spec]
      Reports(i) == Got(NameOf(k, plan[i]), revision.uid)
  IN \/ \A i \in 1..Len(plan) : Reports(i) # {}
     \/ \E s \in 1..Len(plan) :
          /\ \A i \in 1..s : Reports(i) # {}
          /\ \E r \in Reports(s) : r.result = "Failure" /\ r.stop
FinishedMeansOver ==
  \A k \in Keys : \A n \in 2..Latest(k) :
    revisions[k][n].status = "Finished" /\ revisions[k][n - 1].status = Blank
      => Over(k, revisions[k][n])

(* It does, as long as the children can be created, and are not those of   *)
(* an earlier run of the name.                                             *)
OverUnlessRefused == Without({"createfails", "recreate"}) => FinishedMeansOver

(* Every run comes to its end.  This takes for granted that no run or test *)
(* is deleted: the wait for a child that is gone has no end.               *)
EveryRunFinishes ==
  \A k \in Keys : Obj(k).live ~>
    (~Obj(k).live \/ Obj(k).status = "Finished" \/ ~Without({"delete", "childdelete"}))
=============================================================================
