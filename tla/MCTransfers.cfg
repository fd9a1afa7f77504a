SPECIFICATION AllSpec
CONSTANTS
  f1 = f1
  f2 = f2
  k1 = k1
  k2 = k2
  Files = {f1, f2}
  StateFiles = {k1, k2}
  StateOf <- OwnState
  Size <- Sizes
  PartSize = 2
  Resumes <- Resuming
  MaxFaults = 3
  MaxLosses = 4
  MaxFailures = 2
  MediaVersions = 3
  MediaSize <- DifferentMedia
  Uploaders = {u1, u2}
  Versions = 2
  Parts <- PartsOf
  LocalSize <- Different
  Short = {1}
  Ids = 3
  Calls = {c1, c2}
  Sources = {"path", "stream"}
  SourceParts <- SourceSizes
  ShortSources = {"path"}
  BigSources = {"path"}
  Via <- SourceKinds
  MaxIds = 2
  MaxErrors = 1
SYMMETRY Symmetry
INVARIANTS TypeOK NothingMissing ExactIfClean ResumedWhole UploadsWhole
