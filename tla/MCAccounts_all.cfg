SPECIFICATION FairSpec
CONSTANTS
  u1 = u1
  u2 = u2
  e1 = e1
  e2 = e2
  Usernames = {u1, u2}
  Emails = {e1, e2}
  Subs = {s1, s2}
  Secrets = {k1, k2}
  Links = {l1}
  Requests = {r1, r2}
  Environments <- MCEnvironments
  None = None
INVARIANTS
  TypeOK
  OnlyTheConfirmedLogIn
  LinksTakeEffectOnce
PROPERTIES
  NothingIsDoubled
  RemovedLoginsStayRemoved
  ActivationsAreCompleted
CHECK_DEADLOCK FALSE
