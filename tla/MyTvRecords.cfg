CONSTANTS
  Title = {1, 2}
  Position = {0, 1}
  MaxTime = 3
  Field = {rating}
  Job = {j1, j2}
  MaxEdits = 2
  MaxDisturbances = 1
  Season = {s1, s2}
  VideoFile = {f1}
  MaxSeriesTaps = 9
  MaxAsks = 1
  MaxSeriesFaults = 1
  MaxFilmTaps = 2
  MaxFilmUpsets = 1
  List = {l1, l2}
  Pages = 2
  MaxFeedTaps = 5
  MaxFeedFaults = 1
  MaxCalls = 2
  QueueLength = 3
  Found = {1, 3}
  MaxOrderTaps = 2
  MaxOrderUpsets = 1
SPECIFICATION RecordsSpec
INVARIANTS LastBookmarkIsKept ViewingIsTrue SheetsAreTrue
PROPERTIES BookmarkNeverGoesBack RestartKeepsBookmarks QuietDatabaseCatchesUp ListsAreTrue
CHECK_DEADLOCK FALSE
