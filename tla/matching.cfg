SPECIFICATION Spec
CONSTANTS
  Names <- MCNames
  Albums <- MCAlbums
  AliasSets <- MCAliasSets
  ArtistSets <- MCArtistSets
  Years <- MCYears
  Counts <- MCCounts
  Durations <- MCDurations
  TagSets <- MCTagSets
  StrongTags = {"live"}
  Similarities <- MCSimilarities
  Unknown = Unknown
  Ids = {"a", "b"}
  Worlds <- MCWorlds
  Candidate = 3500
  Ambiguous = 6000
  Automatic = 8800
  Gap = 500
  NoHit = NoHit
CHECK_DEADLOCK FALSE
INVARIANTS
  TypeOK
  EveryHitShown
  OnlyEarlierTakes
  AutoHasNoRival
  TwinsAreAuto
  AutoIsEarned
