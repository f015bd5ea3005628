\* Two requests at a time, two devices, two tickets and three challenges, with either setting
\* of LOGIN_REQUIRE_WEBAUTHN.
\* Rows are used up in the end: no deadlock check.
SPECIFICATION Spec
CONSTANTS
  r1 = r1
  r2 = r2
  s1 = s1
  s2 = s2
  d1 = d1
  d2 = d2
  t1 = t1
  t2 = t2
  c1 = c1
  c2 = c2
  c3 = c3
  Nothing = Nothing
  Requests = {r1, r2}
  Sessions = {s1, s2}
  Devices = {d1, d2}
  Tickets = {t1, t2}
  Challenges = {c1, c2, c3}
  LoneUpdate = TRUE
SYMMETRY AccountSymmetry
CONSTRAINT FewRows
CHECK_DEADLOCK FALSE
PROPERTIES
  ProofsAreUsedOnce
  OnlyLoginsReplace
