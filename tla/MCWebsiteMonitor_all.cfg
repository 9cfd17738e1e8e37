\* A single process, or the two of a rolling deployment.
SPECIFICATION FairSpec
CONSTANTS
  m1 = m1
  m2 = m2
  Monitors = {m1, m2}
  GetOnly = GetOnly
  GetPost = GetPost
  Methods = {GetOnly, GetPost}
  ConfiguredMethods = GetOnly
  DefaultMethods = GetPost
  NoRestriction = NoRestriction
  NoRecord = NoRecord
  ActivationDuration = 3
  GracePeriodDuration = 2
  SiteDownThreshold = 2
  Environments <- Mixed
INVARIANTS TypeOK RemovalIsRecorded RemovalIsRemembered PollingMeansRestricted OriginalMethodsComeBack
PROPERTIES ImplementsLease RememberedProtectionIsRemovedAgain
