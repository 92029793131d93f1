SPECIFICATION MCSpec
CONSTANTS
  Projects <- MCProjects
  Commands <- MCCommands
  Initial <- MCInitial
  Offered <- Offers
  Apply <- ApplyCommand
  Revert <- RevertCommand
  Invariants <- CheckTimelineInvariants
  Capacity = 1
  MinCapacity = 2
  Frame = 1
  SourceLength = 3
  MaxTracksPerKind = 1
  Ops = {"SetClipTransforms"}
  Ids = {"x"}
  Horizon = 3
  Speeds = {2, 4}
  Spans = {2}
  Looks = {"plain", "faded"}
  ReuseIds = TRUE
  MaxEdits = 2
  Starts = {"crossfade"}
INVARIANT HistoryExact
