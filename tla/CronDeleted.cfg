SPECIFICATION Spec
CONSTANTS
  Keys = {k1}
  NoKey = NoKey
  Specs <- JustCurl
  NoSpec = NoSpec
  Statuses <- MCStatuses
  Blank <- MCBlank
  MaxId = 4
  MaxEntries = 2
  Faults = {"delete"}
  MaxFaults = 1
INVARIANTS
  RemovedWithInstance
\* Deleted CronTests leave nothing to do.
CHECK_DEADLOCK FALSE
