---------------------------- MODULE MCCurlTest ----------------------------
(* CurlTest for TLC: every log over the specs.                             *)
EXTENDS CurlTest

MCStatuses == {"", "Success", "Failure"}
MCLogs == SUBSET Specs
MCNoLog == {}
=============================================================================
