SPECIFICATION Spec
CONSTANTS
  p1 = p1
  p2 = p2
  p3 = p3
  i1 = i1
  i2 = i2
  none = none
  NoPolicy = none
  Keys <- AllKeys
  Synthetic <- Baseline
  Contents <- Files
  MaxUploads = 2
  MaxLoads = 3
  MayRaise = TRUE
  MayCrash = TRUE
  MayLoseFiles = TRUE
INVARIANT TypeOK
INVARIANT UploadedRowsAreProcessed
INVARIANT NoLineTwice
PROPERTY BaselineCovered
PROPERTY EngineReadsOverlay
