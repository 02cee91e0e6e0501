CONSTANTS
  Sessions = {s1}
  Runs = {r1}
  Contents = {a, b}
  EpisodeLimit = 2
  MaxMemories = 3
  MaxUserRows = 1
  MaxVersion = 2
  MaxCandidates = 2
  None = None
  Purged = Purged
CHECK_DEADLOCK FALSE
SPECIFICATION Spec
PROPERTIES UserFactsStay
