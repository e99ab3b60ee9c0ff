CONSTANTS
  Video = {v1}
  Run = {r1, r2}
  Parts = 2
  MaxFaults = 2
  MaxRemovals = 1
  Laptop = {l1, l2}
  MaxClaims = 2
  MaxStops = 1
  MaxStudioFaults = 1
  TitleCard = {t1, t2}
  Person = {p1}
  Season = {s1}
  MaxOpens = 2
  Episode = {e1, e2}
  Call = {m1, m2}
  MaxMarks = 3
  MaxFailures = 1
  MaxShellEvents = 2
  Story = {tale1, tale2}
  Length = 2
  Scenes <- MCScenes
  MaxFamilyTaps = 5
  Folder = {a, b, c}
  MaxChannelTaps = 3
  MaxOtherDevices = 1
  MaxChannelFaults = 1
  MediaItem = {photo, movie}
  MaxGalleryTaps = 3
  MaxGalleryUpsets = 2
  Viewed = {w1, w2}
  Span = {day, month}
  MaxInsightTaps = 3
  MaxInsightUpsets = 1
SPECIFICATION ClientsSpec
INVARIANTS UndisturbedIsWhole MarksSettle HandOverIsSafe ShellIsHonest SoundIsWanted
PROPERTIES CardsAreTrue ChannelPagesAreTrue GalleryIsCurrent InsightsAreTrue
CHECK_DEADLOCK FALSE
