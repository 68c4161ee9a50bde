SPECIFICATION MCSpec
CONSTANTS
  Lefts <- MCLefts
  Rights <- MCRights
  Canonicals = {1, 2}
  Searches <- MCSearches
  Syncs <- MCSyncs
  NoEntity = NoEntity
  NoCanonical = NoCanonical
INVARIANTS
  TypeOK
  LeftLinkedOnce
  CanonicalIsWhole
  DetailIsSound
PROPERTIES
  SerialMerges
  EverySessionEnds
