SPECIFICATION ObserversSpec
CONSTANTS
  Collectors = {"old", "new"}
  ChunkSizes = {1, 2}
  LogSize = 5
  Sources <- MCSources
  Requests <- MCRequests
  Filters <- MCFilters
  LineBytes = 1
  PageLines = 2
  ScanBytes = 4
  MaxSessions = 2
  MaxBytes <- MCBytes
  Openers = {o1, o2}
  Viewers = {v1, v2}
  NoOne = NoOne
  Services = {"api"}
  Unchecked = {}
  Threshold = 2
  MaxTokens = 2
  MaxProbes = 3
  MaxEvents = 1
  Members = {"a", "b"}
  Limit = 2
  MaxStarts = 2
  LogLines <- MCLogLines
  Sizes <- MCSizes
  Capacity = 2
  HistoryCells = 5
  MousePlaces <- MCPlaces
  MaxDue = 2
  MaxKeys = 3
  ReadSize = 3
  KeyChannel = 1
INVARIANTS
  ScreenShowsView
  KeysAreTyped
  CollectedTimesAreTrue
  PagesAreTheLog
  OneViewerIsFound
  HealthIsEvidence
  RecordIsTrue
PROPERTIES
  PausedViewStays
CHECK_DEADLOCK FALSE
