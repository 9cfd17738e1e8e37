\* A single process that may be killed anywhere.
SPECIFICATION FairSpec
CONSTANTS
  m1 = m1
  m2 = m2
  Monitors = {m1, m2}
  GetOnly = GetOnly
  GetPost = GetPost
  Methods = {GetOnly, GetPost}
  ConfiguredMethods = GetOnly
  DefaultMethods = GetPost
  NoRestriction = NoRestriction
  NoRecord = NoRecord
  ActivationDuration = 2
  GracePeriodDuration = 1
  SiteDownThreshold = 2
  Environments <- Deadly
PROPERTIES ProtectionIsRemovedAgain
