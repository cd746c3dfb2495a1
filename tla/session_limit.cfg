\* Two uploads of a user who may have one unfinished session; every upload has one part.
CONSTANTS
  u1 = u1
  u2 = u2
  r1 = r1
  r2 = r2
  w1 = w1
  w2 = w2
  NoUpload = NoUpload
  Uploads <- TwoUploads
  Requests <- OneRequest
  Workers <- OneWorker
  PartCount = 1
  SessionLimit = 1
  MaxGateLosses = 0
SPECIFICATION Spec
SYMMETRY Symmetry
INVARIANT SessionLimitHolds
