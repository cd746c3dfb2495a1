\* Batches: three attempts, a registry of two, one chunk slot, one restart.
\* Upload page: three nicknames, three reviews, two privacy prompts, two files, one renaming of each.
CONSTANTS
  AttemptCount = 3
  MaxUnfinished = 2
  MaxActiveChunks = 1
  MaxRestarts = 1
  Look <- TwoLooks
  MaxEdits = 3
  MaxBlurs = 3
  MaxRequests = 2
  Files = {a, b}
  MaxSelected = 2
  MaxRenames = 1
SYMMETRY Symmetry
SPECIFICATION Spec
INVARIANTS SlotsAccounted RetryHasRoom QueueFlows NicknameAllowed SelectionIsCurrent
CHECK_DEADLOCK FALSE
