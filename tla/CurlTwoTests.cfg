SPECIFICATION FairSpec
CONSTANTS
  Keys = {k1, k2}
  NoKey = NoKey
  Specs = {s1}
  NoSpec = NoSpec
  Statuses <- MCStatuses
  Blank = ""
  Logs <- MCLogs
  NoLog <- MCNoLog
  MaxJobRevisions = 4
  Faults = {"crash", "createfails", "logsfail", "lag", "statusfails", "latecondition"}
  MaxFaults = 1
INVARIANTS
  TypeOK
  NoLostTest
  OneJob
PROPERTIES
  EveryTestDecided
