\* A message to every group, the delegates among them.
CONSTANTS
  owner = owner  admin = admin  far = far  isso = isso  delegate = delegate  auditor = auditor
  other = other  cms = cms  opdiv = opdiv  sysC = sysC  sysO = sysO  c1 = c1  r1 = r1  r2 = r2
  text = text  jane = jane  Jane = Jane  joe = joe  nonsense = nonsense
  Person <- People
  OpDiv <- Divisions
  CMS = cms
  System = {sysC, sysO}
  OpDivOf <- DivisionOf
  OutOfUse = {sysO}
  DelegatesOn <- Divisions
  Request = {r1, r2}
  Populations <- MCPopulations
  Term = 1
  Horizon = 2
  AskedRoles = {"OWNER", "OPDIV_ADMIN", "SYSTEM_DELEGATE"}
  AskedKinds <- Kinds
  Faults = {"derive"}
  Now = Now
  Users <- Everyone
  Unscoped = {owner}
  Scoped = {admin, far}
  Issos = {isso}
  Delegates = {delegate}
  OpDivs <- Divisions
  DefaultOpDiv = cms
  Granted <- MCGranted
  Systems = {sysC, sysO}
  Assigned <- MCAssigned
  Texts = {text}
  Cycles = {c1}
  Requests = {r1, r2}
  Seeds <- MCSeeds
  Forms <- MCForms
  Dates = {0, 1}
  LastMoment = 1
  Sends = {r1, r2}
  Addresses = {jane, joe, nonsense}
  Spellings = {jane, Jane, joe, nonsense}
  AddressOf <- MCAddressOf
  NoContact = NoContact
  Undeliverable = {nonsense}
  Directories <- MCDirectories
  AskedGroups = {"ISSO", "ISSM", "ADMIN", "SYSTEM_DELEGATE", "ALL", "EVERYONE"}
SPECIFICATION MCSpec
INVARIANTS EveryGroupCanBeMailed
CHECK_DEADLOCK FALSE
