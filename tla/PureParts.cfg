SPECIFICATION Spec
CONSTANTS
  Requests <- MCRequests
  Orders = {0, 1, 2, 3}
  NotANumber = NotANumber
  MaxTests = 2
  MaxLines = 3
  Words = {"2", "3", "4", "12", "2000"}
  QpsWords = {"qps=", "qps=8", "qps=9"}
  Halves <- MCHalves
  Outputs <- MCOutputs
INVARIANTS
  NothingDropped
  DistinctOrdersObeyed
  NumbersInPlace
  WholeLogIsRead
  JsonIsTaken
\* A behaviour ends with the plan, or with what was read.
CHECK_DEADLOCK FALSE
