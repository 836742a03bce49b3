\* Two VMs, two requests at a time.
CONSTANTS
  VMs = {v1, v2}
  Threads = {t1, t2}
  None = none
  Resizes <- MCResizes
SPECIFICATION Spec
INVARIANTS BulkOkIsTrue BulkTriesAll EventIsTrue OnlyTheseGoUnlogged
PROPERTIES KeepsAudit
SYMMETRY Symmetric
