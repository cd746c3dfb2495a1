\* As spool_delivery.cfg, without faults.
CONSTANTS
  a = a
  b = b
  c = c
  r1 = r1
  r2a = r2a
  w1 = w1
  w2 = w2
  NoBytes = NoBytes
  NoWorker = NoWorker
  PartCount = 2
  Bytes <- Contents
  Sent <- Versions
  InterruptedParts <- SecondPart
  Requests <- TwoRequests
  Workers <- TwoWorkers
  MaxMultiparts = 4
  MaxFaults = 0
SPECIFICATION Spec
INVARIANT SpoolRemovedWhenDelivered
CHECK_DEADLOCK FALSE
