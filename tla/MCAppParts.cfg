\* One name a message may mention; one lane of two clips, three edits of it; two
\* effects, a curve of two points, three edits of them; one file, three changes of the
\* session, two saves, one menu action.
SPECIFICATION MCSpec
CONSTANTS
  Names = {a}
  MaxEntries = 4
  MaxTouches = 1
  Clips = {k1, k2}
  Lanes = {v1}
  None = None
  Horizon = 2
  MaxTracks = 2
  MaxEdits = 3
  EffectIds = {e1, e2}
  Unset = Unset
  NoGesture = NoGesture
  MaxPoints = 2
  MaxChainEdits = 3
  Files = {f}
  NoFile = NoFile
  MaxChanges = 4
  MaxFileSaves = 2
  MaxGestures = 1
INVARIANTS AppTypeOK SurfaceSound ChatSound WindowSound EffectsSound
CHECK_DEADLOCK FALSE
