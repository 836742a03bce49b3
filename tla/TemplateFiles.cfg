\* One template, one playbook, two requests at a time.
CONSTANTS
  Templates = {tpl}
  Playbooks = {play}
  Versions <- MCVersions
  Valid <- MCValid
  Missing = missing
  Empty = empty
  Broken = broken
  Threads = {t1, t2}
  None = none
  good1 = good1
  good2 = good2
  bad = bad
SPECIFICATION Spec
INVARIANTS SavedIsOnDisk WholeUnlessSpoiled LaunchGetsTemplate CopyIsCleanedUp
SYMMETRY Symmetric
