------------------------------ MODULE MCLeader ------------------------------
(* Leader for TLC: four disturbances, and a pod for each of those that     *)
(* add or cost one beside the pod to begin with.                           *)
EXTENDS Leader
=============================================================================
