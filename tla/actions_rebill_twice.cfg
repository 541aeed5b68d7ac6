SPECIFICATION Spec
CONSTANTS
  w1 = w1
  w2 = w2
  p1 = p1
  p2 = p2
  Workers = {w1, w2}
  Policies = {p1, p2}
  Findings <- Rebills
  MinClaim = 2
  EscalationThreshold = 4
  MaxCalls = 2
  MaxResets = 0
  MaxReconciles = 0
  MayCrash = FALSE
INVARIANT BilledOnce
