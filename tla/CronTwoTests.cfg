SPECIFICATION FairSpec
CONSTANTS
  Keys = {k1, k2}
  NoKey = NoKey
  Specs <- CurlAndInvalid
  NoSpec = NoSpec
  Statuses <- MCStatuses
  Blank <- MCBlank
  MaxId = 6
  MaxEntries = 1
  Faults = {"crash", "delete", "edit", "statusfails"}
  MaxFaults = 1
INVARIANTS
  TypeOK
PROPERTIES
  ScheduleKept
  EveryCronTestIsScheduled
\* Deleted CronTests leave nothing to do.
CHECK_DEADLOCK FALSE
