CONSTANTS
  n1 = n1
  n2 = n2
  t = t
  u1 = u1
  u2 = u2
  q1 = q1
  q2 = q2
  Names = {n1, n2}
  Texts = {t}
  NoText = NoText
  Matches <- SecondMatches
  Listed <- TwoListed
  MaxGroups = 3
  Users = {u1, u2}
  NoUser = NoUser
  MembersOf <- Memberships
  Queries = {q1, q2}
  FoundBy <- OneFound
  MaxVisits = 2
  MaxScreens = 1
  MaxSearches = 2
SPECIFICATION Spec
INVARIANTS
  TypeOK
  RowsOpenWhatTheyShow
  MembersOfTappedGroup
PROPERTIES
  PatientInvitesLatest
CONSTRAINT FewTaps
CHECK_DEADLOCK FALSE
