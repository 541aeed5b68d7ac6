SPECIFICATION Spec
CONSTANTS
  c1 = c1
  c2 = c2
  Clients = {c1, c2}
  MaxRequests = 2
  PipelineMayRaise = FALSE
  DatabaseMayRaise = FALSE
  MayCrash = FALSE
INVARIANT OnePipeline
