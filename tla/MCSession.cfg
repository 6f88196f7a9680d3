CONSTANTS
  a1 = a1
  a2 = a2
  Accounts = {a1, a2}
  NoAccount = NoAccount
  MaxTaps = 2
  MaxTabs = 2
SPECIFICATION FairSpec
INVARIANTS
  TypeOK
  LoginSocketIsSignedIn
  PairIsWhole
  PatientRequestsAreOwn
PROPERTIES
  GrantedShowsTabs
CHECK_DEADLOCK FALSE
