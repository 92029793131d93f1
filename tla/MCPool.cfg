\* Two clips of two assets, a cache of one decoder, two workers, queues of one picture.
CONSTANTS
  a1 = a1
  a2 = a2
  c1 = c1
  c2 = c2
  w1 = w1
  w2 = w2
  Renderer = Renderer
  None = None
  Assets <- MCAssets
  Clips <- MCClips
  AssetOf <- MCAssetOf
  Workers <- MCWorkers
  LastFrame = 2
  QueueCapacity = 1
  CacheCapacity = 1
  PrefetchDepth = 1
  MaxJobs = 3
SPECIFICATION Spec
INVARIANTS
  ClaimsExclusive
  PictureIsTheFrame
  ResidentAreActive
PROPERTY CallsReturn
\* The pool has been shut down.
CHECK_DEADLOCK FALSE
