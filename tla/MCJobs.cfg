\* Exports: two callers, two exports of a two-frame timeline, one edit.  Generations:
\* two threads, two jobs, one track of two places, one edit of the user.
\* Requests: two, each with one tick for the connection and one for the exchange.
CONSTANTS
  Callers = {"dialog", "tool"}
  TotalFrames = 2
  MaxExports = 2
  MaxEdits = 1
  Absent = Absent
  mcp = mcp
  gui = gui
  Generators <- MCGenerators
  Gui <- gui
  Tracks = {v1}
  Assets = {a}
  Slots = {0, 1}
  Budget = 1
  MaxPolls = 1
  MaxJobs = 2
  MaxUserEdits = 1
  VerifyCertificate = TRUE
  ConnectTicks = 1
  IoTicks = 1
  MaxRequests = 2
SPECIFICATION MCSpec
INVARIANTS
  ExportsSound PlacementsSound LifecycleSound HttpSound
  ReportsInOrder
PROPERTY JobsEnd
\* The callers stop after the last export, and the process ends.
CHECK_DEADLOCK FALSE
