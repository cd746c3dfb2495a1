\* History: three records, a page of one, refreshes that reach all of them.
\* Sessions: two requests, two auth calls, three sessions, two faults, one event.
\* Process: two requests, one job, two connections of which one breaks, two slots of an upload and one of the user.
\* Form: up to three items, two of them allowed.
\* Rows: two transactions; a user with two sessions, two uploads of two parts and a key.
CONSTANTS
  RecordCount = 3
  Recorded = 2
  PageSize = 1
  MaxRefresh = 3
  WatchRefreshes = 1
  MaxTaps = 1
  Requests = {r1, r2}
  Calls = {c1, c2}
  MaxSessions = 3
  MaxFaults = 2
  MaxEvents = 1
  Handlers = {h1, h2}
  Jobs = {j1}
  Connections = {k1, k2}
  PoolSize = 2
  Uploads = {u1}
  Parts = {p1, p2}
  UploadSlots = 2
  UserSlots = 1
  MaxBroken = 1
  MaxItems = 3
  MaxParts = 2
  Transactions = {t1, t2}
  Accounts = {a1}
  SessionIds = {s1, s2}
  UploadIds = {v1, v2}
  PartNumbers = {n1, n2}
  KeyIds = {i1}
  AccountOf <- OneAccount
  FamilyOf <- OneFamily
SPECIFICATION Spec
INVARIANTS TypeOK RefreshAlive NothingSkipped FamilyHasOneHead TokenSpentOnce OneUserPerIdentity LeasesExclude PooledHoldsNothing ConfirmedIsWhole BodyHasReader NoServerDeadlock
CHECK_DEADLOCK FALSE
