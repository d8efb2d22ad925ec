------------------------------ MODULE TestPlan ------------------------------
(***************************************************************************)
(* The order of a TestRun as a behaviour: one request and the plan that    *)
(* is made of it.                                                          *)
(***************************************************************************)
EXTENDS TestOrder

CONSTANT Requests     \* what is asked for

ASSUME RequestsAssumption == Requests \subseteq Request

VARIABLES request, plan

Asked ==
  /\ request \in Requests
  /\ plan = <<>>

Plans ==
  /\ plan = <<>>
  /\ plan' = Plan(request)
  /\ UNCHANGED request

PlanSpec == Asked /\ [][Plans]_<<request, plan>>

Planned == plan # <<>>

(* Every test of the request is in the plan exactly once.                  *)
NothingDropped == Planned => Complete(request, plan)

(* Where the orders given are all different, the plan follows them.        *)
DistinctOrdersObeyed == Planned => Obeys(plan)
=============================================================================
