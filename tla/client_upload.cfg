\* One upload of three parts, two at a time, the app hidden up to twice.
CONSTANTS
  PartCount = 3
  MaxParallel = 2
  MaxHides = 2
SPECIFICATION FairSpec
INVARIANTS TypeOK CompletionCovered NoChunkLeft ToldIsTrue
PROPERTIES QuietWhileHidden VisibleUploadEnds
CHECK_DEADLOCK FALSE
