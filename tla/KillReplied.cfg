\* A DELETE of a listed session.
CONSTANTS
  VMs = {v1}
  SessionIds = {s1}
  Threads = {t1, t2}
  Reaper = reaper
  Nobody = nobody
  None = none
  ReaperInPuma = TRUE
SPECIFICATION Spec
CHECK_DEADLOCK FALSE
INVARIANT KillReplied
