SPECIFICATION Spec
CONSTANTS
  Keys = {k1, k2}
  NoKey = NoKey
  Specs = {s1}
  NoSpec = NoSpec
  Statuses <- MCStatuses
  Blank = ""
  Logs <- MCLogs
  NoLog <- MCNoLog
  QpsWords = {"qps=8"}
  MaxJobRevisions = 4
  Faults = {"crash", "configedit", "configfails", "filefails", "statusfails", "logsfail", "lag", "podloss",
            "createfails", "recreate"}
  MaxFaults = 1
INVARIANTS
  TypeOK
  NoLostTest
  OneJob
  FiledIsMeasured
  SuccessIsRead
  AloneIsFiled
PROPERTIES
  EntriesKept
SYMMETRY Symmetry
