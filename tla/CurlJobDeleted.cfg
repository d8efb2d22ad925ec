SPECIFICATION FairSpec
CONSTANTS
  Keys = {k1}
  NoKey = NoKey
  Specs = {s1}
  NoSpec = NoSpec
  Statuses <- MCStatuses
  Blank = ""
  Logs <- MCLogs
  NoLog <- MCNoLog
  MaxJobRevisions = 4
  Faults = {"jobdelete"}
  MaxFaults = 1
PROPERTIES
  MissingJobIsGivenUp
