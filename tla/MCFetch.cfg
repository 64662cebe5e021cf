CONSTANTS
  NUrls = 2
  Playlists = {2}
  NSegments = 2
  Tries = 2
  Sources = {"cyberdrop-dl", "gofile", "direct"}
  MaxRetries = 1
SPECIFICATION Spec
INVARIANT EveryUrlAsked
PROPERTIES WholeAndOnce FetchEnds
CHECK_DEADLOCK FALSE
