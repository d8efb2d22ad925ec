SPECIFICATION FairSpec
CONSTANTS
  Keys = {k1, k2}
  NoKey = NoKey
  Specs <- MCSpecs
  NoSpec = NoSpec
  Statuses <- MCStatuses
  Blank = ""
  NotANumber = NotANumber
  MaxChildRevisions = 3
  Faults = {"crash", "statusfails", "createfails", "delete", "childdelete"}
  MaxFaults = 1
INVARIANTS
  TypeOK
  OneAtATime
  StopIsObeyed
  OverUnlessRefused
PROPERTIES
  EveryRunFinishes
\* A deleted run is done with: nothing is left to do.
CHECK_DEADLOCK FALSE
