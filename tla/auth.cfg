SPECIFICATION MCSpec
CONSTANTS
  r1 = r1 r2 = r2 b1 = b1 a1 = a1 a2 = a2 x = x y = y
  e1 = e1 e2 = e2 o1 = o1 c1 = c1 c2 = c2 c3 = c3
  Requests <- MCRequests
  Browsers <- MCBrowsers
  Accounts <- MCAccounts
  Delegates <- MCDelegates
  Expiries <- MCExpiries
  Addresses <- MCAddresses
  EntraKeys <- MCEntraKeys
  OktaKeys <- MCOktaKeys
  Tokens <- MCTokens
  Trusted <- MCTrusted
  Clients <- MCClients
  NoKey = NoKey
  NoAddress = NoAddress
  NoToken = NoToken
  NoAccount = NoAccount
  NoCookie = NoCookie
  NoVerdict = NoVerdict
  Horizon = 5
  Interval = 2
  Timeout = 1
  SessionTTL = 2
  Budget = 3
  Rate = 1
  Burst = 2
  TTL = 2
INVARIANTS TypeOK GenuineKeyIsAccepted IdleBucketsLeave
PROPERTIES ServedAsPresented SessionsEnd LimiterIsIdeal
CONSTRAINT Bounded
SYMMETRY Interchangeable
CHECK_DEADLOCK FALSE
