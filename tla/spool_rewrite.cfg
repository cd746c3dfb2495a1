\* The first part has two versions, and a request that sends it may end after the file.
CONSTANTS
  a = a
  b = b
  c = c
  r1 = r1
  r2a = r2a
  w1 = w1
  w2 = w2
  NoBytes = NoBytes
  NoWorker = NoWorker
  PartCount = 2
  Bytes <- Contents
  Sent <- Versions
  InterruptedParts <- FirstPart
  Requests <- TwoRequests
  Workers <- TwoWorkers
  MaxMultiparts = 4
  MaxFaults = 2
SPECIFICATION Spec
INVARIANT AcceptedBytesKept
CHECK_DEADLOCK FALSE
