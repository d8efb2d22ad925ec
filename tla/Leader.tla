------------------------------- MODULE Leader -------------------------------
(***************************************************************************)
(* The start of the operator process: it becomes the leader of its         *)
(* namespace by creating a ConfigMap that its pod owns, tells the readiness*)
(* probe, and starts the controllers.  The result of leader.Become is      *)
(* dropped: a process that could not ask for the lock goes on without it.  *)
(*                                                                         *)
(* Around it: the Deployment's ReplicaSets, which hold one pod per template*)
(* and update by rolling over, the kubelet, which restarts containers, and *)
(* the garbage collector, which deletes the lock of a pod that is gone.    *)
(***************************************************************************)
EXTENDS Naturals, FiniteSets

CONSTANTS
  MaxPods,   \* bound: how many pods are created at most
  Faults,    \* the disturbances that may happen, each once
  MaxFaults  \* bound: how many of them at most

ASSUME BoundsAssumption == MaxPods \in Nat /\ MaxFaults \in Nat

VARIABLES
  pods,      \* per name, what the API server has of the pod
  template,  \* the template it was made from
  wanted,    \* the templates whose ReplicaSet is scaled to one
  lock,      \* the owner of the ConfigMap
  process,   \* per pod, where main is
  ready,     \* the pods whose container has the file of the probe
  faults     \* the disturbances that happened

vars == <<pods, template, wanted, lock, process, ready, faults>>

Pods  == 1..MaxPods   \* numbered as they are created
NoPod == 0
Templates == {"first", "second"}

TypeOK ==
  /\ pods \in [Pods -> {"none", "running", "terminating", "gone"}]
  /\ template \in [Pods -> Templates]
  /\ wanted \subseteq Templates
  /\ lock \in Pods \cup {NoPod}
  /\ process \in [Pods -> {"down", "owner", "look", "create", "elected", "work"}]
  /\ ready \subseteq {p \in Pods : process[p] = "work"}
  /\ faults \subseteq Faults

Init ==
  /\ pods = [p \in Pods |-> "none"]
  /\ template = [p \in Pods |-> "first"]
  /\ wanted = {"first"}
  /\ lock = NoPod
  /\ process = [p \in Pods |-> "down"]
  /\ ready = {}
  /\ faults = {}

Disturb(fault) ==
  /\ fault \in Faults \ faults
  /\ Cardinality(faults) < MaxFaults
  /\ faults' = faults \cup {fault}
Without(excluded) == faults \cap excluded = {}

-----------------------------------------------------------------------------
(* The Deployment, with the default strategy: one pod more than the one    *)
(* replica may exist during an update, and none less may be ready.         *)

Creates(p) ==
  /\ pods[p] = "none"
  /\ \A q \in Pods : q < p => pods[q] # "none"
  /\ \E t \in wanted :
       /\ \A q \in Pods : ~(pods[q] = "running" /\ template[q] = t)
       /\ template' = [template EXCEPT ![p] = t]
  /\ pods' = [pods EXCEPT ![p] = "running"]
  /\ UNCHANGED <<wanted, lock, process, ready, faults>>

Updates ==
  /\ wanted = {"first"}
  /\ Disturb("update")
  /\ wanted' = Templates
  /\ UNCHANGED <<pods, template, lock, process, ready>>

RollsOver ==
  /\ wanted = Templates
  /\ \E p \in ready : pods[p] = "running" /\ template[p] = "second"
  /\ wanted' = {"second"}
  /\ UNCHANGED <<pods, template, lock, process, ready, faults>>

ScalesDown(p) ==
  /\ pods[p] = "running" /\ template[p] \notin wanted
  /\ pods' = [pods EXCEPT ![p] = "terminating"]
  /\ UNCHANGED <<template, wanted, lock, process, ready, faults>>

(* Somebody deletes a pod, or, by force, its record alone.                 *)
Deleted(p) ==
  /\ pods[p] = "running"
  /\ Disturb("delete")
  /\ pods' = [pods EXCEPT ![p] = "terminating"]
  /\ UNCHANGED <<template, wanted, lock, process, ready>>

Forced(p) ==
  /\ pods[p] \in {"running", "terminating"}
  /\ Disturb("forced")
  /\ pods' = [pods EXCEPT ![p] = "gone"]
  /\ UNCHANGED <<template, wanted, lock, process, ready>>

-----------------------------------------------------------------------------
(* The kubelet: a container that exits is started afresh, its files gone.  *)

Goes(p, step) == process' = [process EXCEPT ![p] = step]

Starts(p) ==
  /\ pods[p] = "running" /\ process[p] = "down"
  /\ Goes(p, "owner")
  /\ UNCHANGED <<pods, template, wanted, lock, ready, faults>>

ExitsReady(p) ==               \* mutant: the file survives the container
  Goes(p, "down") /\ UNCHANGED ready /\ process[p] # "down"
Exits(p) == Goes(p, "down") /\ ready' = ready \ {p} /\ process[p] # "down"

Crashes(p) ==
  /\ pods[p] = "running"
  /\ Exits(p)
  /\ Disturb("crash")
  /\ UNCHANGED <<pods, template, wanted, lock>>

Terminates(p) ==
  /\ pods[p] \in {"terminating", "gone"}
  /\ Exits(p)
  /\ UNCHANGED <<pods, template, wanted, lock, faults>>

Removed(p) ==
  /\ pods[p] = "terminating" /\ process[p] = "down"
  /\ pods' = [pods EXCEPT ![p] = "gone"]
  /\ UNCHANGED <<template, wanted, lock, process, ready, faults>>

LockCollected ==
  /\ lock # NoPod
  /\ pods[lock] = "gone"
  /\ lock' = NoPod
  /\ UNCHANGED <<pods, template, wanted, process, ready, faults>>

-----------------------------------------------------------------------------
(* main: leader.Become, then the readiness file and the controllers.       *)

ReadyAtOnce(p) ==              \* mutant: the file is set before leader.Become
  /\ process[p] = "owner"
  /\ pods[p] # "gone"
  /\ Goes(p, "look")
  /\ ready' = ready \cup {p}
  /\ UNCHANGED <<pods, template, wanted, lock, faults>>
myOwnerRef(p) ==
  /\ process[p] = "owner"
  /\ pods[p] # "gone"
  /\ Goes(p, "look")
  /\ UNCHANGED <<pods, template, wanted, lock, ready, faults>>

(* A lock with the name of this pod is from before a restart of it.        *)
LooksForAny(p) ==              \* mutant: any lock is taken for its own
  /\ process[p] = "look"
  /\ Goes(p, IF lock # NoPod THEN "elected" ELSE "create")
  /\ UNCHANGED <<pods, template, wanted, lock, ready, faults>>
LooksForNone(p) ==             \* mutant: the existing lock is not looked for
  /\ process[p] = "look"
  /\ Goes(p, "create")
  /\ UNCHANGED <<pods, template, wanted, lock, ready, faults>>
Looks(p) ==
  /\ process[p] = "look"
  /\ Goes(p, IF lock = p THEN "elected" ELSE "create")
  /\ UNCHANGED <<pods, template, wanted, lock, ready, faults>>

(* As long as the lock exists, Create is refused, and tried again.         *)
CreatesLock(p) ==
  /\ process[p] = "create"
  /\ lock = NoPod
  /\ lock' = p
  /\ Goes(p, "elected")
  /\ UNCHANGED <<pods, template, wanted, ready, faults>>

(* Every other error of Become is returned to main, which drops it; a      *)
(* Create that fails may have had its effect.                              *)
BecomeFails(p) ==
  /\ process[p] \in {"owner", "look", "create"}
  /\ IF process[p] = "owner" /\ pods[p] = "gone"
     THEN UNCHANGED faults
     ELSE Disturb("apifails")
  /\ \/ UNCHANGED lock
     \/ process[p] = "create" /\ lock = NoPod /\ lock' = p
  /\ Goes(p, "elected")
  /\ UNCHANGED <<pods, template, wanted, ready>>

Works(p) ==
  /\ process[p] = "elected"
  /\ ready' = ready \cup {p}
  /\ Goes(p, "work")
  /\ UNCHANGED <<pods, template, wanted, lock, faults>>

Main(p) == myOwnerRef(p) \/ Looks(p) \/ CreatesLock(p) \/ BecomeFails(p) \/ Works(p)

Next ==
  \/ Updates \/ RollsOver \/ LockCollected
  \/ \E p \in Pods :
       \/ Creates(p) \/ ScalesDown(p) \/ Deleted(p) \/ Forced(p)
       \/ Starts(p) \/ Crashes(p) \/ Terminates(p) \/ Removed(p)
       \/ Main(p)

Spec == Init /\ [][Next]_vars

(* The cluster keeps its loops running, a process is not suspended, and a  *)
(* candidate that tries again and again finds the moment.                  *)
Fairness ==
  /\ WF_vars(LockCollected) /\ WF_vars(\E p \in Pods : Creates(p))
  /\ \A p \in Pods :
       /\ WF_vars(ScalesDown(p)) /\ WF_vars(Starts(p))
       /\ WF_vars(Terminates(p)) /\ WF_vars(Removed(p))
       /\ WF_vars(myOwnerRef(p) \/ Looks(p) \/ Works(p))
       /\ SF_vars(CreatesLock(p))
FairSpec == Spec /\ Fairness

-----------------------------------------------------------------------------
(* Two operators never work side by side, over restarts, deletions and     *)
(* updates: only if asking for the lock failed, or a pod's record was      *)
(* deleted by force, may that happen.                                      *)
AtWork == {p \in Pods : process[p] \in {"elected", "work"}}
OneOperator ==
  Without({"apifails", "forced"}) => \A p, q \in AtWork : p = q

(* An update never gives up the template of a working operator: the new    *)
(* pod is not ready before it is the leader, so the update hangs until     *)
(* somebody deletes the old pod by hand.                                   *)
UpdateSparesLeader ==
  [][Without({"apifails", "forced"}) =>
       \A p \in Pods : process[p] = "work" /\ pods[p] = "running" /\ template[p] \in wanted
                         => template[p] \in wanted']_vars

(* Whatever is deleted, updated or restarted, an operator is at work in    *)
(* the end, and stays.                                                     *)
SomebodyWorks == <>[](\E p \in Pods : process[p] = "work" /\ pods[p] = "running")
=============================================================================
