\* One profile and two handlers at a time.
SPECIFICATION FairSpec
CONSTANTS
  u1 = u1
  p1 = p1
  p2 = p2
  Users = {u1}
  Addresses = {a1, a2}
  Networks = {n1}
  Partners = {p1, p2}
  Shared = {p1}
  Handlers = {h1, h2}
  Environments <- Mixed
  None = None
INVARIANTS TypeOK
PROPERTIES AddressesSurvive OverridesSurvive MembershipIsHeard MembershipReturns
