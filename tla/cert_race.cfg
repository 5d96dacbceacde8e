\* An operator uploads the next bundle while one invocation is at the last;
\* nothing fails.
CONSTANTS
  mine = mine
  foreign = foreign
  i1 = i1
  i2 = i2
  Bundles <- Uploads
  PairOf <- Pairs
  IssuerOf <- Pairs
  Invalid = {}
  Window = 1
  Invocations = {i1}
  Retries = 0
  Patience = {FALSE}
  DryRun = FALSE
  MaxUploads = 4
  MaxTime = 1
  Faults = {}
SPECIFICATION Spec
INVARIANTS NoRaceOnArchival
\* The uploads are bounded.
CHECK_DEADLOCK FALSE
