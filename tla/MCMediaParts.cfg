CONSTANTS
  o1 = o1 o2 = o2 o3 = o3 c1 = c1 c2 = c2 a1 = a1 a2 = a2 a3 = a3 w1 = w1 w2 = w2
  Objects = {o1, o2, o3}
  Callers = {c1, c2}
  Worker = Worker
  Owner = Owner
  NoObject = NoObject
  Assets = {a1, a2, a3}
  Extractors = {w1, w2}
  NoAsset = NoAsset
  EnvelopeCapacity = 2
  MaxScrolls = 2
  SoundAssets = {a1, a2, a3}
  MixClips <- MCClips
  Lengths <- MCLengths
  Block = 3
  Quantum = 2
  Tolerance = 1
  Residents = 2
  Horizon = 4
  r1 = r1 r2 = r2 small = small large = large look = look missing = missing
  Renderers = {r1, r2}
  Tracks <- MCTracks
  Positions = {2, 5}
  Descs = {small, large}
  Bytes <- MCBytes
  Budget = 6
  LutFiles = {look, missing}
  NoLut = NoLut
  Ticks = 100000
  Rate = 48
  FrameRates <- MCFrameRates
  Durations = {1, 3336667, 6673333, 12500000}
  ChunkSize = 1024
  Packets <- MCPackets
  Delay = 1
  SeekPoints = {0, 2, 3}
  Absent = Absent
  Capacity = 2
  BufferSizes = {1, 2}
  MaxPlayed = 4
  MaxSuspends = 1
  MaxRuns = 1
  ui = ui endpoint = endpoint f1 = f1
  Importers = {ui, endpoint}
  Spellings <- MCSpellings
  Locations = {f1}
  LocationOf <- MCLocationOf
  NoEntry = NoEntry
  MaxImports = 2
  MaxReplaced = 1
  MaxChanges = 2
SPECIFICATION MCSpec
CHECK_DEADLOCK FALSE
INVARIANTS PartsTypeOK TeardownSound EnvelopesSound MixIsExact OutputSound FilesSound
PROPERTIES PartsSettle
