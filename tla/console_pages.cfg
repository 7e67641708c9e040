CONSTANTS
  Query <- TheQueries
  Op <- TheOps
  Page <- ThePages
  Layout <- FrameQueries
  Neutral <- NeutralPages
  LeftStale <- TheLeftStale
  c1 = c1
  c2 = c2
  Calls = {c1, c2}
  None = None
  MaxVersion = 2
  MaxMade = 2
  MaxFaults = 1
SPECIFICATION Spec
INVARIANTS TypeOK ReadYourWrites NoEndlessSpinner
PROPERTIES PollCatchesUp JobsShownFinished
CHECK_DEADLOCK FALSE
