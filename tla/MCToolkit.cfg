SPECIFICATION MCSpec
CONSTANTS
  Jobs = {"7[1]", "7[2]", "8"}
  Base <- MCBase
  Index <- MCIndex
  First = "7"
  Inputs = {"f1"}
  MaxEdits = 1
  MaxKills = 2
  Pcts = {0, 1}
  StallTicks = 2
  MaxLogLines = 6
  MirrorSets <- MCSets
  MirrorTree <- MCTree
  DataDir = "data"
  RunIds = {1, 2}
  LeafFiles = {"f1", "f2"}
  Suffixes = {"a", "rest", ""}
  MaxWrites = 1
  MaxPuts = 2
  MaxLines = 3
  HarnessRuns = {"r1", "r2"}
  Raggeds = {{"r2"}}
  Dirs = {"d1", "d2"}
  Given = {"d2"}
  MaxOwner = 1
  ListOrder <- MCOrder
  Filters <- MCFilters
  ListHeights <- MCHeights
  MaxChanges = 1
  Queues = {"std", "gpu1", "debug", "cdebug"}
  Gpu = {"gpu1"}
  DebugQueue = "debug"
  DebugLike = {"debug", "cdebug"}
  Listings <- MCListings
  Confs <- MCConfs
  Walls = {0, 3}
  Counts = {0, 2}
  Default = 2
  MaxFormEdits = 1
  Defs <- MCDefs
  Fleets <- MCFleets
  JobIds = {1}
  TomlFiles <- MCTomlFiles
  TomlEdits <- MCTomlEdits
  MaxSaves = 2
  PanelRows <- MCPanelRows
  PanelOpen <- MCAtOpen
  Words = {"w", "bad"}
  Bad = "bad"
  Members <- MCMembers
  PanelHeights = {6, 24}
  MaxRows = 1
  MaxSyncEdits = 1
  MaxWork = 3
  MaxSyncs = 2
  Node = "n"
  Marks <- MCMarks
  MaxMoves = 4
  MaxSubmits = 2
INVARIANTS
  WellTyped
  OwnRunDir
  CleanRecordIsTrue
  ArchiveKeepsApart
  GetReturnsPut
  EveryLineOnce
  RcIsOwn
  SliceIsOwn
  CursorIsDrawn
  CancelIsMeant
  SentFits
  FormAgreesWithFlags
  TableIsWhole
  FanReturns
  CursorOnScreen
  RecordedCommitIsRun
PROPERTIES
  PrepKeeps
  StallsAreEarned
  SwapKeepsCase
  SaveSaysWhatWasAsked
  SetChangesAsToggled
  SeamsStayHome
  WorkIsKept
CHECK_DEADLOCK FALSE
