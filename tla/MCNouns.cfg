SPECIFICATION Spec
CONSTANTS
  Callers = {c1}
  Coordinated = TRUE
  MaxCalls = 5
  CallsIn <- MCCallsIn
  WingNames <- MCWingNames
  RoomNames <- MCRoomNames
  HINT_ROOM <- Hint
  Batches <- MCBatches
  Drawers = {d1, d2}
  NoDrawer = NoDrawer
  Levels = {0, 2}
  MaxDepth = 4
  Sources <- MCSources
  Handles = {"p1", "p2"}
  Subjects = {"d1", "d2"}
  Places = {"here", "there", "nowhere"}
  NoPlace = "nowhere"
  InitialSubjects <- MCSubjects
  States = {0, 16}
  Agents = {"agent"}
  Wings = {"w1", "w2"}
  Targets = {"d1", "d2"}
  MaxTime = 2
INVARIANTS
  TreeIsSound
  OneParent
  RelationsHold
PROPERTIES
  ReviewedOnce
  TracesSettle
CHECK_DEADLOCK FALSE
