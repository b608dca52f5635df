SPECIFICATION Spec
CONSTANTS
  Disks <- MCDisks
  Machines <- MCMachines
  Sizes <- MCSizes
  Memories <- MCMemories
INVARIANTS
  TypeOK
  VgcreateSucceeds
  VolumesFit
  FstabFormatted
