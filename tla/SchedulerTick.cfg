\* Two workers, one schedule, two minutes.
CONSTANTS
  Scheds = {s1}
  Plans <- MCPlans
  VMs <- MCVMs
  Groups <- MCGroups
  MemberOf <- MCMemberOf
  NoGroup = nogroup
  Nil = nil
  Absent = absent
  Workers = {w1, w2}
  MaxMinute <- MCMaxMinute
  Clock <- MCClock
  Dom <- MCDom
  Wday <- MCWday
  g = g
  empty = empty
  typo = typo
  a = a
  b = b
  t = t
  u = u
SPECIFICATION Spec
INVARIANTS OnceUnlessOverlap NothingDueIsSkipped EventTellsOutcome RecordedBeforeActing
PROPERTIES KeepsAudit
SYMMETRY Symmetric
CHECK_DEADLOCK FALSE
