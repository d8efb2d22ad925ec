SPECIFICATION FairSpec
CONSTANTS
  MaxPods = 4
  Faults = {"apifails", "crash", "delete", "forced", "update"}
  MaxFaults = 4
INVARIANTS
  TypeOK
  OneOperator
PROPERTIES
  UpdateSparesLeader
  SomebodyWorks
CHECK_DEADLOCK FALSE
