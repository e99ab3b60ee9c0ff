SPECIFICATION FairPlaybackSpec
CONSTANTS
  p1 = p1
  p2 = p2
  d1 = d1
  d2 = d2
  NoProgramme = NoProgramme
  Programme <- MCProgramme
  Playlists <- MCPlaylists
  Device <- MCDevice
  QueueLimit = 3
  HistoryLimit = 1
  MaxId = 3
  MaxRequests = 2
  Settings <- MCSettings
INVARIANTS ResumePointIsOwn PlayingIsConfirmed
PROPERTIES OwnerIsRespected ImplementsStore TvStartResolves DisplacedPlayerStops
CHECK_DEADLOCK FALSE
