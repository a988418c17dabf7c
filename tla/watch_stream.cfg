SPECIFICATION FairSpec
CONSTANTS
  a = a
  b = b
  EmptyID = EmptyID
  NonNumericIDs = {}
  MaxNew = 1
  KeepOverflow = FALSE
  SeenLimit = 4
  WatermarkLimit = 2
  IncludeExisting = FALSE
  MaxPages = 2
  Sources <- MCSources
  Argv <- MCArgv
  Kind <- MCUserAndTag
  Lanes <- MCMixLanes
  PageSize <- MCPagesDiffer
  Hidden = {2}
  NoReposts = FALSE
  Once = FALSE
  AsJSON = FALSE
  OldPosts = 3
  MaxPosts = 4
  MaxGone = 0
  MaxStops = 2
INVARIANTS
  TypeOK
  SeenIsAccounted
  RedeliveryNeedsStop
PROPERTIES
  HistoryStaysSilent
  KeepsPromise
  BacklogSettles
