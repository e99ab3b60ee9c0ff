SPECIFICATION PiSpec
CONSTANTS
  p1 = p1
  p2 = p2
  NoProgramme = NoProgramme
  Programme <- MCProgramme
  Playlists <- MCPlaylists
  Device = {d1}
  QueueLimit = 3
  HistoryLimit = 1
  MaxId = 3
  Entry = {q1, q2}
  MaxTaps = 2
  MaxUpsets = 1
  Item = {i1, i2, i3}
  MaxMoves = 2
  MaxChanges = 2
  File = {film, show}
  Page = {left, right}
  Thread = {h1, h2}
  Size = 2
  MaxEvents = 3
INVARIANTS StateRowAgrees RowsAreUnique UpNextPageIsTrue PlaylistIsHonest ReceivedIsInGoodHands
PROPERTIES EntryEndsWithItsPlayback
CHECK_DEADLOCK FALSE
