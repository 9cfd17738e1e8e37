\* One visit beside an administrator.
SPECIFICATION Spec
CONSTANTS
  Admins = {a1}
  Requests = {r1}
  States = {off, on}
  On = {on}
  Default = off
  None = None
  Environments <- Calm
INVARIANTS StaffCanSignIn
