CONSTANTS
  DEV = DEV
  Names = {A, B, DEV}
  FS_MAX_FILES = 2
  SECTOR = 2
  LIMIT = 5
  Byte = {b1}
  MaxSize = 3
  MaxDepth = 2

SPECIFICATION Spec
VIEW DiskView
SYMMETRY Alike
CONSTRAINT NotHurt

INVARIANTS TypeOK SectorsOwned DevReserved
PROPERTIES StoreSpec
