SPECIFICATION FairSpec
CONSTANTS
  p1 = p1
  p2 = p2
  Procs = {p1, p2}
  Crypttab <- MCCrypttab
  Overlapping = {"luks", "tcrypt"}
  Rounds = 2
  NoMapping = NoMapping
INVARIANTS
  TypeOK
  OpenerOnly
  KeyFsKept
PROPERTIES
  StartPublishesOwn
  DataKept
  ImplementsPromise
  CommandEnds
