SPECIFICATION FairSpec
CONSTANTS
  a = a
  b = b
  EmptyID = EmptyID
  NonNumericIDs = {word}
  MaxNew = 1
  KeepOverflow = TRUE
  SeenLimit = 3
  WatermarkLimit = 2
  IncludeExisting = TRUE
  MaxPages = 2
  Sources <- MCSources
  Argv <- MCArgvABA
  Kind <- MCAllUsers
  Lanes <- MCNitterUsers
  PageSize <- MCPageFour
  Hidden = {2}
  NoReposts = TRUE
  Once = TRUE
  AsJSON = TRUE
  OldPosts = 1
  MaxPosts = 3
  MaxGone = 1
  MaxStops = 1
INVARIANTS
  MatchesLoops
  PendingIsAccounted
  OnlyOwnTweets
PROPERTIES
  KeepsPromise
  BacklogDrains
