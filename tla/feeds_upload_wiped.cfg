SPECIFICATION Spec
CONSTANTS
  p1 = p1
  p2 = p2
  p3 = p3
  i1 = i1
  i2 = i2
  none = none
  NoPolicy = none
  Keys <- AllKeys
  Synthetic <- Baseline
  Contents <- Files
  MaxUploads = 1
  MaxLoads = 1
  MayRaise = FALSE
  MayCrash = FALSE
  MayLoseFiles = FALSE
INVARIANT UploadSurvives
