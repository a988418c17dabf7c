SPECIFICATION Spec
CONSTANTS
  p1 = p1
  p2 = p2
  NoLink = NoLink
  NoExt = NoExt
  Nobody = Nobody
  Procs = {p1, p2}
  Exts = {".jpg", ".mp4"}
  Links <- MCLinks
  Answers <- MCAnswers
  Batches <- MCBatches
  OldFiles <- MCOldFiles
CHECK_DEADLOCK FALSE
INVARIANTS
  TypeOK
  FilesWhole
  RefsAccounted
PROPERTIES
  KeepsWhatItSaw
  ChainExhausted
