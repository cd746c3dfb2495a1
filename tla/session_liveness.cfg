\* One upload of one part, two workers, one lost lock; fair scheduling.
CONSTANTS
  u1 = u1
  u2 = u2
  r1 = r1
  r2 = r2
  w1 = w1
  w2 = w2
  NoUpload = NoUpload
  Uploads <- OneUpload
  Requests <- OneRequest
  Workers <- TwoWorkers
  PartCount = 1
  SessionLimit = 1
  MaxGateLosses = 1
SPECIFICATION FairSpec
PROPERTIES EverySessionSettles EveryKeyAnswered
