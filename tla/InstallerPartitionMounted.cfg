SPECIFICATION Spec
CONSTANTS
  r1 = r1
  r2 = r2
  b1 = b1
  NoFile = NoFile
  Devices <- MCDevices
  MountPoints <- MCMountPoints
  Above <- MCAbove
  SortPos <- MCSortPos
  BaseFstab <- MCBaseFstab
  StockFstab <- MCStockFstab
  Partitionings <- MCPartitionings
  AutoBoot = b1
  AutoRoot = r1
  EFI = FALSE
  Shielded <- MCNowhere
  MaxMounts = 9
INVARIANTS
  UnmountedBeforeDiskWork
