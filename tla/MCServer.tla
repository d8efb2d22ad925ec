------------------------------ MODULE MCServer ------------------------------
(* Server for TLC: the type named in the source, and any other word.       *)
EXTENDS Server

MCSpecs    == {"LoadBalancer", "NodePort"}
MCStatuses == {Blank}
=============================================================================
