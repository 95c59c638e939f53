SPECIFICATION FairSpec
CONSTANTS
  o1 = o1
  o2 = o2
  t1 = t1
  t2 = t2
  bob = bob
  Bob = Bob
  ann = ann
  d1 = d1
  d2 = d2
  i1 = i1
  i2 = i2
  None = None
  b1 = b1
  b2 = b2
  Orgs = {o1}
  Teams = {}
  Addresses = {bob, ann}
  Identities = {d1, d2}
  Invites = {i1}
  Redeems = {}
  SignIns = {b1, b2}
  Managers = {}
  Canon <- CanonId
  AddressOf <- OwnAddress
  OrgOf <- SameOrg
  TeamOf <- NoTeam
  Pattern <- AnyAddress
  Providers <- AnyProvider
  MaxUses <- TwoUses
  ExpiresAt <- ExpiresAtOne
  PoolSize = 2
  MaxNow = 0
  Faults = FALSE
PROPERTIES EveryCallAnswered
\* Every call is made once: the system may stop.
CHECK_DEADLOCK FALSE
