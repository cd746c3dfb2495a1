\* One upload of two parts, two workers, two part requests, two lost locks.
CONSTANTS
  u1 = u1
  u2 = u2
  r1 = r1
  r2 = r2
  w1 = w1
  w2 = w2
  NoUpload = NoUpload
  Uploads <- OneUpload
  Requests <- TwoRequests
  Workers <- TwoWorkers
  PartCount = 2
  SessionLimit = 1
  MaxGateLosses = 2
SPECIFICATION Spec
SYMMETRY Symmetry
INVARIANTS TypeOK RowsAgree SchemaChecks OneVerdict SingleFreshClaim CompletedIsStored SpoolKeptWhileNeeded NoWriterBesideOwner
PROPERTIES PublicStatusIsFinal ImplementsLifecycle
