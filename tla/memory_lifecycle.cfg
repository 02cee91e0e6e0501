CONSTANTS
  Sessions = {s1, s2}
  Runs = {r1, r2}
  Contents = {a, b}
  EpisodeLimit = 2
  MaxMemories = 3
  MaxUserRows = 1
  MaxVersion = 2
  MaxCandidates = 2
  None = None
  Purged = Purged
SYMMETRY Symmetry
CHECK_DEADLOCK FALSE
SPECIFICATION Spec
INVARIANTS TypeOK OneOpenRevision NoDuplicateEpisodes PurgeIsComplete
PROPERTIES RetiredIsFinal RewritesAreTrusted RetiredEpisodesAreCovered
