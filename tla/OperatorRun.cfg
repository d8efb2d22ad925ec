SPECIFICATION FairOperator
CONSTANTS
  Keys = {k1}
  NoKey = NoKey
  Specs <- MCSpecs
  NoSpec = NoSpec
  Statuses <- MCStatuses
  Blank = "none"
  NotANumber = NotANumber
  MaxChildRevisions = 3
  MaxJobRevisions = 2
  MaxUid = 2
  Faults = {"crash", "delete", "panics"}
  TestFaults = {"crash"}
  MaxFaults = 2
INVARIANTS
  LoadIsSerial
  FinishedIsQuiet
PROPERTIES
  RunSeesTests
  EveryRunFinishes
\* A deleted run is done with: nothing is left to do.
CHECK_DEADLOCK FALSE
