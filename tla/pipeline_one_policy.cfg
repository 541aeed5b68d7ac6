SPECIFICATION Spec
CONSTANTS
  r1 = r1
  r2 = r2
  p1 = p1
  p2 = p2
  ghost = ghost
  none = none
  NoPolicy = none
  NoAmount = NoAmount
  NoFinding = NoFinding
  Tolerance = 3
  RoundingMin = 2
  MinClaim = 5
  EscalationThreshold = 8
  Situations <- OnePolicy
  Runs = {r1}
  Changes = FALSE
  Concurrent = FALSE
  MayFail = FALSE
INVARIANT PaymentsJudged
INVARIANT UnderpaymentPursued
INVARIANT ClaimsAreOwed
INVARIANT PaidIsLeftAlone
INVARIANT OutcomesHappened
INVARIANT NothingFallsThrough
INVARIANT RenewalsReachHuman
