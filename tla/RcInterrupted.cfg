SPECIFICATION Spec
CONSTANTS
  a = a
  b = b
  Services = {a, b}
  Number <- MCNumber
  Multiuser = {"2", "3"}
  DisplayManagers = {b}
  Interruptible = TRUE
INVARIANT
  SkippedWasStarted
