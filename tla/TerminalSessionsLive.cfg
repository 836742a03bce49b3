\* Two request threads and a reaper in Puma's process about one session, with
\* fairness.
CONSTANTS
  VMs = {v1}
  SessionIds = {s1}
  Threads = {t1, t2}
  Reaper = reaper
  Nobody = nobody
  None = none
  ReaperInPuma = TRUE
SPECIFICATION FairSpec
PROPERTIES RequestsAnswered KillTakesEffect ExitNoticed
CHECK_DEADLOCK FALSE
