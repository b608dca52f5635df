SPECIFICATION FairSpec
CONSTANTS
  m1 = m1
  m2 = m2
  usb = usb
  md0 = md0
  md127 = md127
  MdNames <- MCMdNames
  Disks = {m1, m2, usb}
  Members = {m1, m2}
  Removable = {usb}
  RoOrRw = TRUE
  QuietAssemble = TRUE
  MaxUevents = 4
  MaxHandlers = 4
  Enough = 1
  Counter = 5
CHECK_DEADLOCK FALSE
INVARIANTS
  TypeOK
  HandlersSerial
  SingleArray
  NoDeviceLost
  NoMemberLost
PROPERTIES
  BootEnds
  HandlersEnd
