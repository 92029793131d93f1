SPECIFICATION MCSpec
CONSTANTS
  pathA = pathA
  pathB = pathB
  Paths = {pathA, pathB}
  Assets <- MCAssets
  NoPath = NoPath
  Absent = Absent
  Torn = Torn
  MaxRevision = 4
  MaxVersions = 2
  MaxSaves = 2
  MaxLives = 2
  Files = {f, g}
  MaxIds = 2
  NoAsset = NoAsset
  MaxDocumentEdits = 3
INVARIANTS
  SavedReopens
CHECK_DEADLOCK FALSE
