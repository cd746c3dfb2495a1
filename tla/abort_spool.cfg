\* An abort that overtakes the initialization of its upload.
CONSTANTS
  u1 = u1
  u2 = u2
  r1 = r1
  r2 = r2
  w1 = w1
  w2 = w2
  NoUpload = NoUpload
  Uploads <- OneUpload
  Requests <- OneRequest
  Workers <- OneWorker
  PartCount = 1
  SessionLimit = 1
  MaxGateLosses = 0
SPECIFICATION Spec
INVARIANT AbortRemovesSpool
