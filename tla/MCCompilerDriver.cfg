SPECIFICATION Spec
CONSTANTS
  BlockSize = 2
  Names <- AllNames
  Zero = Zero
  NaN = NaN
  Nothing = Nothing
  Calls = {c1, c2}
  Archives <- AllArchives
  SizeCap = 2
  Sizes = {0, 2, 3}
INVARIANTS ArchiveIsRead CommandsFindTheirFiles ArtifactIsOwn
PROPERTY RefusedOnlyIfBroken
CHECK_DEADLOCK FALSE
