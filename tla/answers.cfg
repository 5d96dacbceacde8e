\* The questionnaire: every interleaving of three saves and confirms of one
\* carried-forward row; of two requests of any kind by any tier, under grants and
\* deadlines that move, with bodies that may name another system and another cycle.
\* The rollover: two data calls created at once while users answer and an
\* administrator corrects one; any statement may fail, any request may be cut off.
CONSTANTS
  r1 = r1  r2 = r2  r3 = r3
  isso = isso  issm = issm  opdivAdmin = opdivAdmin  auditor = auditor  owner = owner
  s1 = s1  s2 = s2  c1 = c1  c2 = c2  i1 = i1  i2 = i2
  t1 = t1  t2 = t2  tooLong = tooLong
  Requests = {r1, r2, r3}
  Users = {isso, issm, opdivAdmin, auditor, owner}
  ReadOnly = {auditor}
  Admins = {opdivAdmin, owner}
  Unscoped = {owner}
  Nobody = Nobody
  Systems = {s1, s2}
  Cycles = {c1, c2}
  ScoreIds = {i1, i2}
  Texts = {t1, t2, tooLong}
  LongTexts = {tooLong}
  Seed <- SomeSeed
  Grants <- SomeGrants
  Inputs <- SomeInputs
  Movable <- SomeMovable
  Closing = {c1}
  p1 = p1  p2 = p2  cms1 = cms1  hhs1 = hhs1
  yes = yes  no = no  maybe = maybe  gone = gone
  fy25q3 = fy25q3  fy25ztm = fy25ztm  fy26q1 = fy26q1  fy26q2 = fy26q2  fy25q1 = fy25q1
  Names = {fy25q3, fy25ztm, fy26q1, fy26q2, fy25q1}
  FY26Names = {fy26q1, fy26q2}
  CmsSource = fy25q3
  OtherSource = fy25ztm
  FismaSystems = {cms1, hhs1}
  CmsSystems = {cms1}
  Options = {yes, no, maybe, gone}
  Dead = {gone}
  FunctionOf <- MCFunctionOf
  Creators = {p1, p2}
  SeedCalls <- TwoLineages
  SeedScores <- UnresolvedScores
  Wanted <- NewCycles
  Edits <- Correction
  Answers <- LateAnswers
  MaxScores = 9
  Faults = {"sources", "gate3", "override", "diagnose", "previous", "count", "copy", "crash"}
SPECIFICATION MCSpec
INVARIANTS TypesHold ConfirmAffirmsWhatWasSeen AuthorisedOnTheStoredRow RepliesAreTrue
INVARIANTS AnswersFlowForward OverrideKeepsLineages SilentLossIsBounded
PROPERTIES Contract
CONSTRAINT Bounded
SYMMETRY Symmetry
\* The requests are finite in number and all end.
CHECK_DEADLOCK FALSE
