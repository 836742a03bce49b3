\* One VM, two request threads, two sessions, and the reaper in Puma's process,
\* which adds its steps to those of every configuration of the repository.
CONSTANTS
  VMs = {v1}
  SessionIds = {s1, s2}
  Threads = {t1, t2}
  Reaper = reaper
  Nobody = nobody
  None = none
  ReaperInPuma = TRUE
SPECIFICATION Spec
INVARIANTS RemovedIsKilled AuditIsTrue
PROPERTIES KeepsLedger
SYMMETRY Symmetric
CHECK_DEADLOCK FALSE
