SPECIFICATION Spec
CONSTANTS
  m1 = m1
  m2 = m2
  usb = usb
  md0 = md0
  md127 = md127
  MdNames <- MCMdNames
  Disks = {m1}
  Members = {m1}
  Removable = {}
  RoOrRw = TRUE
  QuietAssemble = TRUE
  MaxUevents = 4
  MaxHandlers = 3
  Enough = 1
  Counter = 120
CHECK_DEADLOCK FALSE
INVARIANT
  WaitsTenMinutes
