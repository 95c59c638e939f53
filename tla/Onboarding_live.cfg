SPECIFICATION FairSpec
CONSTANTS
  o1 = o1
  o2 = o2
  t1 = t1
  t2 = t2
  bob = bob
  Bob = Bob
  ann = ann
  d1 = d1
  d2 = d2
  i1 = i1
  i2 = i2
  None = None
  r1 = r1
  b1 = b1
  b2 = b2
  m1 = m1
  Orgs = {o1}
  Teams = {t1}
  Addresses = {bob, Bob}
  Identities = {d1}
  Invites = {i1}
  Redeems = {r1}
  SignIns = {b1, b2}
  Managers = {m1}
  Canon <- CanonLower
  AddressOf <- SpelledUpper
  OrgOf <- SameOrg
  TeamOf <- OneTeam
  Pattern <- AnyAddress
  Providers <- AnyProvider
  MaxUses <- TwoUses
  ExpiresAt <- ExpiresAtOne
  PoolSize = 5
  MaxNow = 0
  Faults = TRUE
INVARIANTS OneUserPerIdentity
PROPERTIES EveryCallAnswered
\* Every call is made once: the system may stop.
CHECK_DEADLOCK FALSE
