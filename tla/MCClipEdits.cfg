SPECIFICATION MCSpec
CONSTANTS
  Projects <- MCProjects
  Commands <- MCCommands
  Initial <- MCInitial
  Offered <- Offers
  Apply <- ApplyCommand
  Revert <- RevertCommand
  Invariants <- CheckTimelineInvariants
  Capacity = 1
  MinCapacity = 2
  Frame = 1
  SourceLength = 3
  MaxTracksPerKind = 1
  Ops = {"RippleDelete", "RippleTrim", "CloseGap", "ReorderClips", "TrimClip", "SplitClip", "SetClipProperties", "SetTransition", "SetClipTransforms", "AddClip", "DeleteClip", "MoveClip", "AddTrack", "RemoveTrack", "SetTextContent", "SetTextStyle", "SetCaptionText", "RetimeCaptionCue", "SetProjectSettings"}
  Ids = {"x"}
  Horizon = 3
  Speeds = {4}
  Spans = {2}
  Looks = {"plain", "faded"}
  ReuseIds = FALSE
  MaxEdits = 2
  Starts = {"multicam", "titled"}
INVARIANTS
  TypeOK
  ProjectValid
  HistoryExact
PROPERTIES
  RefusedChangesNothing
  EditsKeepContent
