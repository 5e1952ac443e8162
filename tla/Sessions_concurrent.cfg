\* Two browsers and two requests, overlapping or not, one failure anywhere.
SPECIFICATION Spec
CONSTANTS
  Requests = {r1, r2}
  Browsers = {b1, b2}
  Tokens = {t1, t2, t3}
  NoBrowser = NoBrowser
  NoToken = NoToken
  MaxPasswords = 1
  MaxFaults = 1
SYMMETRY Symmetry
INVARIANTS
  OneTokenPerSession
  NoFalseAlarm
  SessionsFollowPassword
CHECK_DEADLOCK FALSE
