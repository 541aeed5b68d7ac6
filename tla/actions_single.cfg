SPECIFICATION Spec
CONSTANTS
  w1 = w1
  w2 = w2
  p1 = p1
  p2 = p2
  Workers = {w1}
  Policies = {p1, p2}
  Findings <- AllRoutes
  MinClaim = 2
  EscalationThreshold = 4
  MaxCalls = 4
  MaxResets = 0
  MaxReconciles = 0
  MayCrash = FALSE
INVARIANT InsurerCalledOnce
INVARIANT BilledOnce
INVARIANT EveryCallAudited
INVARIANT RefusedReachesHuman
