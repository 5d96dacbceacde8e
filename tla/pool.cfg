\* A writer and a reader share two connections under two rotations; or three
\* writes of any kind, from three states of the tables.
CONSTANTS
  w1 = w1  w2 = w2  r1 = r1  k1 = k1  k2 = k2
  Callers = {w1, r1}
  Writers = {w1}
  Conns = {k1, k2}
  Free = Free
  Closed = Closed
  Rotations = 2
  s1 = s1  s2 = s2  cms = cms  hhs = hhs  cloud = cloud  hosted = hosted  retired = retired
  saas = saas  dc = dc  p1 = p1  p2 = p2  f1 = f1  f2 = f2  f3 = f3  f4 = f4  f5 = f5
  a0 = a0  a4 = a4  v1 = v1  b3 = b3  d2 = d2  g2 = g2  x3 = x3  q1 = q1  q2 = q2
  none = none  note = note  spaced = spaced  isso = isso  opdiv = opdiv  admin = admin
  Null = Null
  Systems = {s1, s2}
  OpDivOf <- MCOpDivOf
  Environments = {cloud, hosted, retired}
  KeyOf <- MCKeyOf
  Functions = {f1, f2, f3, f4, f5}
  EditionOf <- MCEditionOf
  PillarOf <- MCPillarOf
  Options = {a0, a4, v1, b3, d2, g2, x3}
  FunctionOf <- MCFunctionOf
  ScoreOf <- MCScoreOf
  Notes = {none, note, spaced}
  PlainOf <- MCPlainOf
  Rules <- MCRules
  Cycles = {q1, q2}
  Users = {isso, opdiv, admin}
  Unscoped = {admin}
  OpDivTier = {opdiv}
  Granted <- MCGranted
  Seeds <- MCSeeds
  Forms <- MCForms
  Edits <- MCEdits
  Moves <- MCMoves
  MaxChanges = 3
SPECIFICATION MCSpec
INVARIANTS TypesHold RotationIsPickedUp NotExhausted ViewsAgree
PROPERTIES EveryCallReturns ScoresFollowAnswers
