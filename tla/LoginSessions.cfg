\* Two threads, two sessions, one API token, two passwords, three moments.
CONSTANTS
  Threads = {t1, t2}
  Tokens = {k1, k2}
  Keys = {key}
  Passwords = {admin, other}
  Default = admin
  TTL = 1
  MaxTime = 2
  None = none
SPECIFICATION Spec
INVARIANTS TypeOK RevokedStaysOut LiveSessionsKept IssuedForPassword ChangeTakesEffect
SYMMETRY Symmetric
CHECK_DEADLOCK FALSE
