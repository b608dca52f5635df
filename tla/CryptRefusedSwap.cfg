SPECIFICATION Spec
CONSTANTS
  p1 = p1
  p2 = p2
  Procs = {p1}
  Crypttab <- MCSwapTab
  Overlapping = {}
  Rounds = 2
  NoMapping = NoMapping
INVARIANT
  RefusedSwapIsClosed
