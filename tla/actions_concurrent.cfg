SPECIFICATION Spec
CONSTANTS
  w1 = w1
  w2 = w2
  p1 = p1
  p2 = p2
  Workers = {w1, w2}
  Policies = {p1, p2}
  Findings <- Mixed
  MinClaim = 2
  EscalationThreshold = 4
  MaxCalls = 3
  MaxResets = 1
  MaxReconciles = 1
  MayCrash = TRUE
SYMMETRY Symmetry
INVARIANT OneActiveClaim
INVARIANT VerifyAuditChain
INVARIANT ClaimsAreEvidenced
INVARIANT EscalationsAreEvidenced
INVARIANT DisputesAreEvidenced
INVARIANT EveryOutcomeAudited
INVARIANT NobodyStuck
INVARIANT ToldOncePerReset
PROPERTY LodgedUnderReservation
PROPERTY AuditIsALog
PROPERTY ActionsAreWhole
