SPECIFICATION FairSpec
CONSTANTS
  Keys = {s1}
  NoKey = NoKey
  Specs <- MCSpecs
  NoSpec = NoSpec
  Blank = Blank
  Statuses <- MCStatuses
  MaxRevisions = 4
  Faults = {"crash", "createfails", "delete", "edit", "recreate", "rsdelete", "svcdelete", "svcedit", "updatefails"}
  MaxFaults = 3
INVARIANTS
  TypeOK
  SettledIsServed
PROPERTIES
  EveryServerIsServed
\* Servers that are served leave nothing to do.
CHECK_DEADLOCK FALSE
