SPECIFICATION Spec
CONSTANTS
  Keys = {k1}
  NoKey = NoKey
  Specs = {s1, s2}
  NoSpec = NoSpec
  Statuses <- MCStatuses
  Blank = ""
  Logs <- MCLogs
  NoLog <- MCNoLog
  MaxJobRevisions = 6
  Faults = {"createfails", "recreate", "crash", "lag", "edit", "jobdelete", "podloss", "latecondition", "statusfails", "delete"}
  MaxFaults = 2
INVARIANTS
  ResultEarned
PROPERTIES
  OneResult
\* A deleted test is done with: nothing is left to do.
CHECK_DEADLOCK FALSE
