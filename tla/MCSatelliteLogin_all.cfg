\* One browser, two satellites, two tokens, one other application.
SPECIFICATION SsoFairSpec
CONSTANTS
  b1 = b1
  s1 = s1
  s2 = s2
  app = app
  Hub = hub
  None = none
  Tokens = {t1, t2}
  Browsers <- BrowsersMC
  Surroundings <- Mixed
  Satellites <- SatellitesMC
  Requests <- RequestsMC
INVARIANTS SsoTypeOK LogoutReachesEveryHost
PROPERTIES ImplementsOneTimeToken NavigationsEnd LoginReachesSatellites
CHECK_DEADLOCK FALSE
