\* Two administrators and two visits at a time.
SPECIFICATION FairSpec
CONSTANTS
  Admins = {a1, a2}
  Requests = {r1, r2}
  States = {off, on}
  On = {on}
  Default = off
  None = None
  Environments <- Mixed
INVARIANTS TypeOK MirrorFollowsRow
PROPERTIES ReadOnlyWhileOn VisitsAreAnswered
