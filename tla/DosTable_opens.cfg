SPECIFICATION Spec
CONSTANTS
  ImgSectors = 14
  VsOffset = 1
  Disks <- AllDisks
INVARIANTS AddressesInOrder EverySectorShown UnallocIsUnused PrimaryKept PartitionsExact
CHECK_DEADLOCK FALSE
