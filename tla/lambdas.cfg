\* Certificates: an operator who waits for the outcome of every upload, and one who
\* does not; the Lambda may fail or stop anywhere, with its event delivered twice.
\* The Kion key: a daily schedule with an operator's overlapping invocations;
\* anything may fail.
CONSTANTS
  mine = mine
  foreign = foreign
  i1 = i1
  i2 = i2
  Bundles <- Uploads
  PairOf <- Pairs
  IssuerOf <- Pairs
  Invalid = {}
  Window = 1
  Invocations = {i1, i2}
  Retries = 1
  Patience = {TRUE, FALSE}
  DryRun = FALSE
  MaxUploads = 4
  MaxTime = 2
  Faults = {"backup", "copy", "delete", "crash", "twice"}
  daily = daily
  manual = manual
  Daily = {daily}
  Manual = {manual}
  Threshold = 4
  Lifetime = 7
  KionTries = 3
  PutTries = 2
  PerDay = 2
  Horizon = 15
  MaxKey = 2
  KionFaults = {"kion", "answer", "put", "refresh", "deadline", "slack", "crash"}
SPECIFICATION MCSpec
INVARIANTS TypesHold ImportedTogether NothingElseIsLost NoBundleIsSwallowed
INVARIANTS LiveKeyHasAHolder OneBadDayIsSurvived
PROPERTIES SecretMovesForward WindowIsKept
CONSTRAINT Hurried
SYMMETRY Symmetric
\* The uploads are bounded, and the clock stops at the horizon.
CHECK_DEADLOCK FALSE
