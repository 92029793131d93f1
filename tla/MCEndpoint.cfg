SPECIFICATION OutsideSpec
CONSTANTS
  Clients = {c1, c2}
  Configs <- SomeConfigs
  MaxSessions = 1
  IdleTimeout = 1
  Threshold = 2
  Window = 1
  Block = 2
  MaxIssued = 2
  Users = {u}
  Providers = {p}
  Keys = {k1, k2}
  MaxConsecutiveFailures = 2
  LockoutDuration = 2
  StorePersists = TRUE
  MaxTime = 3
  MaxRejections = 3
  MaxChanges = 5
  Projects <- MCProjects
  Commands <- MCCommands
  Initial <- MCInitial
  Offered <- Offers
  Apply <- ApplyCommand
  Revert <- RevertCommand
  Invariants <- CheckTimelineInvariants
  Capacity = 1
  MinCapacity = 2
  Frame = 1
  SourceLength = 3
  MaxTracksPerKind = 1
  Ops = {"AddClip", "DeleteClip", "SetClipProperty", "SetTrackMuted", "AddMarker", "RemoveMarker"}
  Ids = {"x"}
  Horizon = 0
  Speeds = {2}
  Spans = {2}
  Looks = {"plain", "faded"}
  ReuseIds = FALSE
  MaxEdits = 3
  Starts = {"empty"}
  Callers = {"gui", "mcp"}
  Gui = "gui"
  Direct <- OpacityAndGain
  MaxInvocations = 1
INVARIANTS EndpointSound AccountsSound
PROPERTIES SessionsKept EndpointAnswers AbortRestores ImplementsHistory
\* The accounts reach their bounds and stop.
CHECK_DEADLOCK FALSE
