\* Two data calls created at once.
CONSTANTS
  p1 = p1  p2 = p2  cms1 = cms1  hhs1 = hhs1
  yes = yes  no = no  maybe = maybe  gone = gone
  fy25q3 = fy25q3  fy25ztm = fy25ztm  fy26q1 = fy26q1  fy26q2 = fy26q2  fy25q1 = fy25q1
  Names = {fy25q3, fy25ztm, fy26q1, fy26q2, fy25q1}
  FY26Names = {fy26q1, fy26q2}
  CmsSource = fy25q3
  OtherSource = fy25ztm
  FismaSystems = {cms1, hhs1}
  CmsSystems = {cms1}
  Options = {yes, no, maybe, gone}
  Dead = {gone}
  FunctionOf <- MCFunctionOf
  Creators = {p1, p2}
  SeedCalls <- OneLineage
  SeedScores <- OneScore
  Wanted <- TwoQuarters
  Edits = {}
  Answers = {}
  MaxScores = 1
  Faults = {}
SPECIFICATION RolloverSpec
INVARIANTS EmptyCycleIsDetected
\* Every request ends, and the users' answers are bounded.
CHECK_DEADLOCK FALSE
