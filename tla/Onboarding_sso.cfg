SPECIFICATION Spec
CONSTANTS
  o1 = o1
  o2 = o2
  t1 = t1
  t2 = t2
  bob = bob
  Bob = Bob
  ann = ann
  d1 = d1
  d2 = d2
  i1 = i1
  i2 = i2
  None = None
  r1 = r1
  b1 = b1
  b2 = b2
  m1 = m1
  Orgs = {o1, o2}
  Teams = {}
  Addresses = {bob}
  Identities = {d1, d2}
  Invites = {i1, i2}
  Redeems = {r1}
  SignIns = {b1, b2}
  Managers = {m1}
  Canon <- CanonId
  AddressOf <- SpelledLower
  OrgOf <- TwoOrgs
  TeamOf <- NoTeam
  Pattern <- AnyAddress
  Providers <- FirstProvider
  MaxUses <- OneUse
  ExpiresAt <- ExpiresAtOne
  PoolSize = 9
  MaxNow = 1
  Faults = TRUE
SYMMETRY CallSymmetry
INVARIANTS TypeOK UsesAccounted OnlyInvited NeverOverRedeemed KeyIffAccepted
PROPERTIES RevokedAdmitsNobody ImplementsLedger
\* Every call is made once: the system may stop.
CHECK_DEADLOCK FALSE
