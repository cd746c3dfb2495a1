\* Three files in one batch: fewer than the queue runs at once, more than there are chunk slots.
CONSTANTS
  AttemptCount = 3
  MaxUnfinished = 5
  MaxActiveChunks = 2
  MaxRestarts = 0
  Look <- TwoLooks
SPECIFICATION FairSpec
PROPERTY FailsOnlyByOwn
CHECK_DEADLOCK FALSE
