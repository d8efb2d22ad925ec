---------------------------- MODULE MCCronTest ----------------------------
(* CronTest for TLC: a proper schedule of CurlTests, and one that cannot   *)
(* be parsed.                                                              *)
EXTENDS CronTest

MCStatuses == [isScheduled: BOOLEAN, cronID: 0..MaxId]
MCBlank == [isScheduled |-> FALSE, cronID |-> 0]
Curl    == [valid |-> TRUE, curl |-> TRUE]
Invalid == [valid |-> FALSE, curl |-> TRUE]
JustCurl == {Curl}
CurlAndInvalid == {Curl, Invalid}
=============================================================================
