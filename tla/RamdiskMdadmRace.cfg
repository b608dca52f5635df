SPECIFICATION Spec
CONSTANTS
  m1 = m1
  m2 = m2
  usb = usb
  md0 = md0
  md127 = md127
  MdNames <- MCMdNames
  Disks = {m1, m2}
  Members = {m1, m2}
  Removable = {}
  RoOrRw = TRUE
  QuietAssemble = FALSE
  MaxUevents = 5
  MaxHandlers = 4
  Enough = 1
  Counter = 5
CHECK_DEADLOCK FALSE
INVARIANT
  MdadmOneAtATime
