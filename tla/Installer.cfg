SPECIFICATION FairSpec
CONSTANTS
  r1 = r1
  r2 = r2
  b1 = b1
  NoFile = NoFile
  Devices <- MCDevices
  MountPoints <- MCMountPoints
  Above <- MCAbove
  SortPos <- MCSortPos
  BaseFstab <- MCBaseFstab
  StockFstab <- MCStockFstab
  Partitionings <- MCEfiPartitionings
  AutoBoot = b1
  AutoRoot = r1
  EFI = TRUE
  Shielded <- MCBothWindows
  MaxMounts = 8
INVARIANTS
  TypeOK
  UnmountedBeforeDiskWork
  NoHiddenMount
  TargetFstabIsMounts
  DevUncoveredDuringUntar
  MountsTracked
PROPERTIES
  MountsReplacedOnlyWhenUnmounted
  InstallWritesOnlyMounts
  OperationEnds
