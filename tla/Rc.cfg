SPECIFICATION Spec
CONSTANTS
  a = a
  b = b
  Services = {a, b}
  Number <- MCNumber
  Multiuser = {"2", "3"}
  DisplayManagers = {b}
  Interruptible = FALSE
INVARIANTS
  TypeOK
  SkippedWasStarted
  LevelReached
  StoppedWasStopped
  ProgressInRange
