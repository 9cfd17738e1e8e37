\* One request beside a logout or a collection, in the circumstances of Mixed.
SPECIFICATION AllSpec
CONSTANTS
  a1 = a1
  s1 = s1
  s2 = s2
  Sessions = {s1, s2}
  Agents = {a1}
  Agent <- OneAgent
  Requests = {r1}
  Tokens = {t1, t2, t3, t4}
  NoToken = NoToken
  Absent = Absent
  Free = Free
  Environments <- Mixed
INVARIANTS AllTypeOK
PROPERTIES LogoutEndsSessions OnlyRevokedAreForgotten
