\* Two requests for one token.
SPECIFICATION Spec
CONSTANTS
  Tokens = {t1}
  Requests = {r1, r2}
INVARIANTS AcceptedAtMostOnce
