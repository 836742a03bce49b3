\* Three runs over nine records and up to five lines.
CONSTANTS
  Config <- MCConfig
  Logs <- MCLogs
  Refused <- MCRefused
  Own <- MCOwn
  Mine = mine
  Ungrouped = ungrouped
  Marked = marked
  MaxRuns = 3
  NoRow = norow
  go = go
  dev = dev
  gone = gone
  self = self
  vm1 = vm1
  vm2 = vm2
  id = id
  own = own
SPECIFICATION ImportSpec
INVARIANTS AllOrNothing CompleteIsComplete
PROPERTIES EditsKept ImportsAtOnce
CHECK_DEADLOCK FALSE
