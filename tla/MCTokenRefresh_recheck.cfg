\* Two requests on one session and nothing goes wrong.
SPECIFICATION Spec
CONSTANTS
  a1 = a1
  s1 = s1
  s2 = s2
  Sessions = {s1, s2}
  Agents = {a1}
  Agent <- OneAgent
  Requests = {r1, r2}
  Tokens = {t1, t2, t3, t4, t5, t6}
  NoToken = NoToken
  Absent = Absent
  Free = Free
  Environments <- Peaceful
INVARIANTS RefreshesCurrentToken
