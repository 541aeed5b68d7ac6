SPECIFICATION FairSpec
CONSTANTS
  c1 = c1
  c2 = c2
  Clients = {c1, c2}
  MaxRequests = 4
  PipelineMayRaise = TRUE
  DatabaseMayRaise = TRUE
  MayCrash = TRUE
PROPERTY ServiceIsKept
INVARIANT OnePipelineEach
INVARIANT CompleteMeansRan
PROPERTY StartedOnce
PROPERTY AcceptedEnds
